---- MODULE Spec2Model ----
(***************************************************************************)
(* A model of the docling driver scripts: the sequential command-line      *)
(* parsers, the worker-pool parsers and the Streamlit session.             *)
(*                                                                         *)
(* The external library is a black box: a conversion call either returns   *)
(* a document or raises.  A script run is the sequence of effects its      *)
(* control flow produces (environment writes, converter construction,      *)
(* conversion calls, file writes, handlers, exit), computed by one         *)
(* operator per function of the source and then executed one effect at a   *)
(* time.                                                                   *)
(***************************************************************************)
EXTENDS Integers, Sequences, FiniteSets, TLC

VARIABLES
    \* ---- one run of a sequential command-line script
    script,      \* the script being run
    input,       \* its arguments and the state of the file system it meets
    todo,        \* the effects the run has still to perform
    outcome,     \* how the run ends: "ok", "Exception", "SystemExit0", "SystemExit1"
    env,         \* names set in os.environ so far
    optsBuilt,   \* a pipeline-options object has been built
    conv,        \* the converter held: "none", "default", "vlm", "bound"
    convLog,     \* one record per convert() call made
    extracted,   \* the extraction step ran
    files,       \* output files written
    handled,     \* except-blocks entered, in order
    checked,     \* os.path.exists checks made, in order
    steps,       \* downloads attempted and test functions returned, in order
    status,      \* "running" or "exited"
    exitCode,    \* the process exit code once exited
    \* ---- one run of a worker-pool script
    prog,        \* the script being run
    pin,         \* its arguments and the directory it meets
    ppc,         \* main's position: "start", "pool", "summary", "exited"
    tasks,       \* the submitted tasks, in submission order
    maxWorkers,  \* the size of the pool
    collected,   \* the tasks whose future main has consumed
    results,     \* main's results list
    pExit,       \* the exit code once exited
    \* ---- one Streamlit session
    sess,        \* st.session_state
    uploaded,    \* the file held by the uploader widget, 0 when none
    wpc,         \* the position of the processing handler, "idle" between reruns
    wrun,        \* the options of the processing attempt under way
    tmpFiles,    \* temporary PDF files on disk
    webEnv,      \* names set in os.environ by the app
    webLog,      \* the conversions of the latest processing attempt, in order
    nextDoc,     \* the number of conversion calls made so far, plus one
    \* ---- one call of an extraction function
    fn,          \* the function called
    farg,        \* its argument: a document, an item tree or a table
    fpc,         \* the position of the call: "start", "running", "returned", "raised"
    stack,       \* its frames, innermost last: recursive calls, loop variables
    calls,       \* the calls it has made, in order
    fret         \* the value returned, or built so far

cliVars == <<script, input, todo, outcome, env, optsBuilt, conv, convLog,
             extracted, files, handled, checked, steps, status, exitCode>>

poolVars == <<prog, pin, ppc, tasks, maxWorkers, collected, results, pExit>>

webVars == <<sess, uploaded, wpc, wrun, tmpFiles, webEnv, webLog, nextDoc>>

fnVars == <<fn, farg, fpc, stack, calls, fret>>

vars == <<script, input, todo, outcome, env, optsBuilt, conv, convLog,
          extracted, files, handled, checked, steps, status, exitCode,
          prog, pin, ppc, tasks, maxWorkers, collected, results, pExit,
          sess, uploaded, wpc, wrun, tmpFiles, webEnv, webLog, nextDoc,
          fn, farg, fpc, stack, calls, fret>>

----------------------------------------------------------------------------
(* Bounds *)

\* process counts 1..MaxProcs are offered on the command line
MaxProcs == 3

\* conversion calls of one run are numbered 1..MaxCalls (simple_vlm_parser makes two)
MaxCalls == 2

----------------------------------------------------------------------------
(* File names and paths.  A file name is a sequence of characters. *)

\* the names offered as the positional PDF argument
CliNames == { <<"a", ".", "p", "d", "f">>,
              <<"a", ".", "b", ".", "p", "d", "f">>,
              <<".", "p", "d", "f">> }

\* "companies_house_document.pdf", abbreviated
CompaniesHouseDocument == <<"c", ".", "p", "d", "f">>

\* "companies_house_document_2.pdf", abbreviated
CompaniesHouseDocument2 == <<"c", "2", ".", "p", "d", "f">>

\* str.rfind, 1-based, 0 when absent
RFind(s, c) ==
    LET I == {i \in 1..Len(s) : s[i] = c}
    IN  IF I = {} THEN 0 ELSE CHOOSE i \in I : \A j \in I : j <= i

\* Path(name).stem: the name up to its last dot, unless that dot is the
\* first or the last character
Stem(name) ==
    LET i == RFind(name, ".")
    IN  IF 1 < i /\ i < Len(name) THEN SubSeq(name, 1, i - 1) ELSE name

\* an output path f"{dir}/{stem}{suffix}"
Path(dir, stem, suffix) == [dir |-> dir, stem |-> stem, suffix |-> suffix]

NoPath == Path("", <<>>, "")

----------------------------------------------------------------------------
(* Effects and results of running a piece of code *)

Ev(kind, arg) == [ev |-> kind, arg |-> arg, path |-> NoPath]

SetEnv(name)  == Ev("env", name)
BuildOptions  == Ev("options", "")
Construct(k)  == Ev("construct", k)
ConvertCall   == Ev("convert", "")
Extract       == Ev("extract", "")
Handler(name) == Ev("handler", name)
Check(what)   == Ev("check", what)
Write(p)      == [ev |-> "write", arg |-> "", path |-> p]

\* a result: the effects performed, how control left, and the value returned
Ok(evs)     == [ev |-> evs, out |-> "ok", ret |-> TRUE]
Ret(evs, v) == [ev |-> evs, out |-> "ok", ret |-> v]
Raise(evs)  == [ev |-> evs, out |-> "Exception", ret |-> FALSE]
SysExit1    == [ev |-> <<>>, out |-> "SystemExit1", ret |-> FALSE]

\* statement sequencing: s runs only if r completed normally
Then(r, s) ==
    IF r.out = "ok"
    THEN [ev |-> r.ev \o s.ev, out |-> s.out, ret |-> s.ret]
    ELSE r

\* a bare `except:` in its place, which also catches SystemExit
ExceptAnything(r, h) ==
    IF r.out # "ok"
    THEN [ev |-> r.ev \o h.ev, out |-> h.out, ret |-> h.ret]
    ELSE r

\* try: r / except Exception: h.  SystemExit is not an Exception and passes
ExceptException(r, h) ==
    IF r.out = "Exception"
    THEN [ev |-> r.ev \o h.ev, out |-> h.out, ret |-> h.ret]
    ELSE r

\* converter.convert(path): the k-th call of the run raises when the file is
\* missing or the library fails on it
Convert(in, k) ==
    IF ~in.pdf \/ k \in in.raises
    THEN Raise(<<ConvertCall>>)
    ELSE Ok(<<ConvertCall>>)

\* the exit code of the interpreter for a run that ended with `out`
ExitCodeOf(out) == IF out \in {"ok", "SystemExit0"} THEN 0 ELSE 1

----------------------------------------------------------------------------
(* The inputs of a run *)

Inputs ==
    [ name   : CliNames,            \* the positional PDF argument, when given
      pdf    : BOOLEAN,             \* the PDF the script looks for exists
      models : BOOLEAN,             \* ~/.cache/docling/models exists
      dl     : BOOLEAN,             \* ./downloaded_models exists
      repo   : BOOLEAN,             \* ./test_docling_2.2.1.py exists
      raises : SUBSET (1..MaxCalls),\* the conversion calls the library fails
      method : {"ocr", "vlm"},      \* the method argument
      nproc  : 1..MaxProcs,         \* the process-count argument
      mlx    : BOOLEAN ]            \* the --mlx flag

OfflineFlags == {"HF_HUB_OFFLINE", "TRANSFORMERS_OFFLINE"}

SetAll3 ==
    Ok(<<SetEnv("DOCLING_ARTIFACTS_PATH"), SetEnv("HF_HUB_OFFLINE"),
         SetEnv("TRANSFORMERS_OFFLINE")>>)

----------------------------------------------------------------------------
(* multiprocess_parser.py *)

MpSetupOffline == SetAll3

MpFullDocumentOcr(in) ==
    Then(Ok(<<BuildOptions, Construct("bound")>>), Convert(in, 1))

MpFullDocumentVlm(in) ==
    Then(Ok(<<Construct("vlm")>>), Convert(in, 1))

MpByMethod(in) ==
    IF in.method = "ocr" THEN MpFullDocumentOcr(in) ELSE MpFullDocumentVlm(in)

ProcessWithMultiprocessing(in) ==
    Then(MpSetupOffline,
         IF in.nproc <= 1
         THEN MpByMethod(in)
         ELSE Then(Ok(<<SetEnv("OMP_NUM_THREADS"), SetEnv("MKL_NUM_THREADS"),
                        SetEnv("NUMEXPR_NUM_THREADS")>>),
                   MpByMethod(in)))

MpSuffix(in, ext) ==
    IF in.method = "ocr"
    THEN (IF ext = "txt" THEN "_ocr_multiprocess.txt" ELSE "_ocr_multiprocess.md")
    ELSE (IF ext = "txt" THEN "_vlm_multiprocess.txt" ELSE "_vlm_multiprocess.md")

MultiprocessMain(in) ==
    Then(Ok(<<Check("pdf")>>),
    IF ~in.pdf
    THEN SysExit1
    ELSE Then(ProcessWithMultiprocessing(in),
              Ok(<<Write(Path("output", Stem(in.name), MpSuffix(in, "txt"))),
                   Write(Path("output", Stem(in.name), MpSuffix(in, "md")))>>)))

----------------------------------------------------------------------------
(* simple_vlm_parser.py: module-level code, two methods tried in turn *)

SimpleVlmMethod1(in) ==
    ExceptException(
        Then(Ok(<<Construct("vlm")>>),
        Then(Convert(in, 1),
             Ok(<<Write(Path("output", <<>>, "vlm_default_output.md"))>>))),
        Ok(<<Handler("simple_vlm.method1")>>))

SimpleVlmMethod2(in) ==
    ExceptException(
        Then(Ok(<<BuildOptions, Construct("bound")>>),
        Then(Convert(in, 2),
             Ok(<<Write(Path("output", <<>>, "vlm_mlx_output.md"))>>))),
        Ok(<<Handler("simple_vlm.method2")>>))

SimpleVlmModule(in) ==
    Then(SetAll3, Then(SimpleVlmMethod1(in), SimpleVlmMethod2(in)))

----------------------------------------------------------------------------
(* fast_gpu_parser.py: module-level code, nothing is caught *)

FastGpuModule(in) ==
    Then(Ok(<<SetEnv("DOCLING_ARTIFACTS_PATH"), BuildOptions, Construct("bound")>>),
    Then(Convert(in, 1),
         Ok(<<Write(Path("output", Stem(CompaniesHouseDocument2), "_text.txt")),
              Write(Path("output", Stem(CompaniesHouseDocument2), "_content.md"))>>)))

----------------------------------------------------------------------------
(* final_offline_parser.py and offline_pdf_parser.py *)

\* the variable exported before the directory is looked for
SetupOfflineEnvironmentEager(in) ==
    Then(Ok(<<SetEnv("DOCLING_ARTIFACTS_PATH"), Check("models")>>),
         IF ~in.models THEN SysExit1 ELSE Ok(<<>>))

\* setup_offline_environment: exits when the models directory is missing
SetupOfflineEnvironment(in) ==
    Then(Ok(<<Check("models")>>),
         IF ~in.models
         THEN SysExit1
         ELSE Ok(<<SetEnv("DOCLING_ARTIFACTS_PATH")>>))

CreateOfflineConverter == Ok(<<BuildOptions, Construct("bound")>>)

\* the except block of process_pdf_offline: print, then sys.exit(1)
ConversionFailed == Then(Ok(<<Handler("process_pdf_offline")>>), SysExit1)

ProcessPdfOffline(in) ==
    Then(Ok(<<Check("pdf")>>),
    IF ~in.pdf
    THEN SysExit1
    ELSE Then(SetupOfflineEnvironment(in),
         Then(CreateOfflineConverter,
              ExceptException(Convert(in, 1), ConversionFailed))))

\* save_results: JSON, then Markdown, then text
SaveResults(name) ==
    Ok(<<Write(Path("output", Stem(name), "_content.json")),
         Write(Path("output", Stem(name), "_content.md")),
         Write(Path("output", Stem(name), "_text.txt"))>>)

FinalOfflineMain(in) ==
    Then(Ok(<<Check("pdf")>>),
    IF ~in.pdf
    THEN SysExit1
    ELSE ExceptException(
             Then(ProcessPdfOffline(in),
             Then(Ok(<<Extract>>),
                  SaveResults(CompaniesHouseDocument))),
             Then(Ok(<<Handler("main")>>), SysExit1)))

OfflinePdfMain(in) == FinalOfflineMain(in)

----------------------------------------------------------------------------
(* multi_gpu_offline_parser.py *)

SetupOfflineEnv(in) ==
    Then(Ok(<<Check("models")>>),
         IF ~in.models
         THEN SysExit1
         ELSE Ok(<<SetEnv("DOCLING_ARTIFACTS_PATH")>>))

CreateMultiGpuConverter == Ok(<<BuildOptions, Construct("bound")>>)

MultiGpuProcessPdf(in) ==
    Then(Ok(<<Check("pdf")>>),
    IF ~in.pdf
    THEN SysExit1
    ELSE Then(SetupOfflineEnv(in),
         Then(CreateMultiGpuConverter,
         Then(Convert(in, 1),
         Then(Ok(<<Extract>>),
              Ok(<<Write(Path("output", Stem(in.name), "_text.txt")),
                   Write(Path("output", Stem(in.name), "_content.md")),
                   Write(Path("output", Stem(in.name), "_data.json"))>>))))))

MultiGpuMain(in) ==
    ExceptException(MultiGpuProcessPdf(in),
                    Then(Ok(<<Handler("main")>>), SysExit1))

----------------------------------------------------------------------------
(* vlm_smoldocling_parser.py *)

SetupVlmOffline == SetAll3

CreateVlmConverter(useMlx) ==
    IF useMlx
    THEN Ok(<<BuildOptions, Construct("bound")>>)
    ELSE Ok(<<Construct("vlm")>>)

ProcessPdfWithVlm(in) ==
    Then(Ok(<<Check("pdf")>>),
    IF ~in.pdf
    THEN SysExit1
    ELSE Then(SetupVlmOffline,
         Then(CreateVlmConverter(in.mlx),
              ExceptException(
                  Then(Convert(in, 1),
                  Then(Ok(<<Extract>>),
                       Ok(<<Write(Path("output", Stem(in.name), "_vlm.md")),
                            Write(Path("output", Stem(in.name), "_vlm.txt"))>>))),
                  Then(Ok(<<Handler("process_pdf_with_vlm")>>), SysExit1)))))

VlmSmolMain(in) ==
    ExceptException(ProcessPdfWithVlm(in),
                    Then(Ok(<<Handler("main")>>), SysExit1))

----------------------------------------------------------------------------
(* short_offline_processor.py *)

ShortProcessPdfOffline(in) ==
    Then(Ok(<<SetEnv("HF_HUB_OFFLINE"), SetEnv("TRANSFORMERS_OFFLINE"),
              Check("downloaded_models")>>),
         IF ~in.dl
         THEN Ret(<<>>, FALSE)
         ELSE Then(Ok(<<SetEnv("DOCLING_ARTIFACTS_PATH"), BuildOptions,
                        Construct("default")>>),
                   ExceptException(
                       Then(Convert(in, 1),
                            Ret(<<Write(Path(".", Stem(CompaniesHouseDocument), "_offline_text.txt")),
                                  Write(Path(".", Stem(CompaniesHouseDocument), "_offline_markdown.md"))>>,
                                TRUE)),
                       Ret(<<Handler("process_pdf_offline")>>, FALSE))))

\* main turns a False return into sys.exit(1)
ExitUnlessTrue(r) == IF r.out = "ok" /\ ~r.ret THEN Then(r, SysExit1) ELSE r

ShortOfflineMain(in) ==
    Then(Ok(<<Check("pdf")>>),
         IF ~in.pdf
         THEN SysExit1
         ELSE ExitUnlessTrue(ShortProcessPdfOffline(in)))

----------------------------------------------------------------------------
(* use_downloaded_models.py: the PDF is the first one found in the directory *)

RunWithDownloadedModels(in) ==
    Then(Ok(<<SetEnv("HF_HUB_OFFLINE"), SetEnv("TRANSFORMERS_OFFLINE"),
              Check("downloaded_models")>>),
         IF ~in.dl
         THEN Ret(<<>>, FALSE)
         ELSE Then(Ok(<<BuildOptions, Construct("bound")>>),
                   IF ~in.pdf
                   THEN Ret(<<>>, FALSE)
                   ELSE ExceptException(
                            Then(Convert(in, 1),
                                 Ret(<<Write(Path(".", Stem(in.name), "_with_models_output.txt"))>>,
                                     TRUE)),
                            Ret(<<Handler("run_with_downloaded_models")>>, FALSE))))

UseDownloadedMain(in) ==
    Then(Ok(<<Check("test_docling_2.2.1.py")>>),
         IF ~in.repo
         THEN SysExit1
         ELSE ExitUnlessTrue(RunWithDownloadedModels(in)))

----------------------------------------------------------------------------
(* The scripts and their entry points *)

Scripts == { "multiprocess_parser", "simple_vlm_parser", "fast_gpu_parser",
             "final_offline_parser", "offline_pdf_parser",
             "multi_gpu_offline_parser", "vlm_smoldocling_parser",
             "short_offline_processor", "use_downloaded_models" }

Run(s, in) ==
    CASE s = "multiprocess_parser"      -> MultiprocessMain(in)
      [] s = "simple_vlm_parser"        -> SimpleVlmModule(in)
      [] s = "fast_gpu_parser"          -> FastGpuModule(in)
      [] s = "final_offline_parser"     -> FinalOfflineMain(in)
      [] s = "offline_pdf_parser"       -> OfflinePdfMain(in)
      [] s = "multi_gpu_offline_parser" -> MultiGpuMain(in)
      [] s = "vlm_smoldocling_parser"   -> VlmSmolMain(in)
      [] s = "short_offline_processor"  -> ShortOfflineMain(in)
      [] s = "use_downloaded_models"    -> UseDownloadedMain(in)

----------------------------------------------------------------------------
(* Each specification runs one kind of program; the variables of the others
   rest at these values. *)

CliIdle ==
    /\ script = "none"
    /\ input = "none"
    /\ todo = <<>>
    /\ outcome = "ok"
    /\ env = {}
    /\ optsBuilt = FALSE
    /\ conv = "none"
    /\ convLog = <<>>
    /\ extracted = FALSE
    /\ files = {}
    /\ handled = <<>>
    /\ checked = <<>>
    /\ steps = <<>>
    /\ status = "none"
    /\ exitCode = 0

PoolIdle ==
    /\ prog = "none"
    /\ pin = "none"
    /\ ppc = "none"
    /\ tasks = <<>>
    /\ maxWorkers = 0
    /\ collected = {}
    /\ results = <<>>
    /\ pExit = 0

WebIdle ==
    /\ sess = "none"
    /\ uploaded = 0
    /\ wpc = "none"
    /\ wrun = "none"
    /\ tmpFiles = {}
    /\ webEnv = {}
    /\ webLog = <<>>
    /\ nextDoc = 0

FnIdle ==
    /\ fn = "none"
    /\ farg = "none"
    /\ fpc = "none"
    /\ stack = <<>>
    /\ calls = <<>>
    /\ fret = "none"

----------------------------------------------------------------------------
(* The run, one effect at a time *)

InitCli ==
    /\ script \in Scripts
    /\ input \in Inputs
    /\ todo = Run(script, input).ev
    /\ outcome = Run(script, input).out
    /\ env = {}
    /\ optsBuilt = FALSE
    /\ conv = "none"
    /\ convLog = <<>>
    /\ extracted = FALSE
    /\ files = {}
    /\ handled = <<>>
    /\ checked = <<>>
    /\ steps = <<>>
    /\ status = "running"
    /\ exitCode = 0
    /\ PoolIdle
    /\ FnIdle
    /\ WebIdle

Next1(kind) ==
    /\ status = "running"
    /\ todo # <<>>
    /\ Head(todo).ev = kind
    /\ todo' = Tail(todo)
    /\ UNCHANGED <<script, input, outcome, status, exitCode>>
    /\ UNCHANGED <<poolVars, webVars, fnVars>>

\* os.environ[name] = ...
DoSetEnv ==
    /\ Next1("env")
    /\ env' = env \cup {Head(todo).arg}
    /\ UNCHANGED <<optsBuilt, conv, convLog, extracted, files, handled, checked, steps>>

\* PdfPipelineOptions(...) / VlmPipelineOptions(...)
DoBuildOptions ==
    /\ Next1("options")
    /\ optsBuilt' = TRUE
    /\ UNCHANGED <<env, conv, convLog, extracted, files, handled, checked, steps>>

\* DocumentConverter(...)
DoConstruct ==
    /\ Next1("construct")
    /\ conv' = Head(todo).arg
    /\ UNCHANGED <<env, optsBuilt, convLog, extracted, files, handled, checked, steps>>

\* converter.convert(...), made by the main process
DoConvert ==
    /\ Next1("convert")
    /\ convLog' = Append(convLog, [conv |-> conv, opts |-> optsBuilt,
                                   env |-> env, proc |-> "main"])
    /\ UNCHANGED <<env, optsBuilt, conv, extracted, files, handled, checked, steps>>

\* the extraction of content from the returned document
DoExtract ==
    /\ Next1("extract")
    /\ extracted' = TRUE
    /\ UNCHANGED <<env, optsBuilt, conv, convLog, files, handled, checked, steps>>

\* open(path, "w") ... write
DoWrite ==
    /\ Next1("write")
    /\ files' = files \cup {Head(todo).path}
    /\ UNCHANGED <<env, optsBuilt, conv, convLog, extracted, handled, checked, steps>>

\* an except block is entered
DoHandler ==
    /\ Next1("handler")
    /\ handled' = Append(handled, Head(todo).arg)
    /\ UNCHANGED <<env, optsBuilt, conv, convLog, extracted, files, checked, steps>>

\* os.path.exists(...) is evaluated
DoCheck ==
    /\ Next1("check")
    /\ checked' = Append(checked, Head(todo).arg)
    /\ UNCHANGED <<env, optsBuilt, conv, convLog, extracted, files, handled, steps>>

\* the interpreter exits
DoExit ==
    /\ status = "running"
    /\ todo = <<>>
    /\ status' = "exited"
    /\ exitCode' = ExitCodeOf(outcome)
    /\ UNCHANGED <<script, input, todo, outcome, env, optsBuilt, conv, convLog,
                   extracted, files, handled, checked, steps>>
    /\ UNCHANGED <<poolVars, webVars, fnVars>>

NextCli ==
    \/ DoSetEnv
    \/ DoBuildOptions
    \/ DoConstruct
    \/ DoConvert
    \/ DoExtract
    \/ DoWrite
    \/ DoHandler
    \/ DoCheck
    \/ DoExit

SpecCli == InitCli /\ [][NextCli]_vars

----------------------------------------------------------------------------
(* Claims about the sequential scripts *)

Exited == status = "exited"

\* the scripts that take the PDF path as an argument or hard-code it
TakesPdfPath == Scripts \ {"use_downloaded_models"}

\* the first conversion call of the run has been made and it raised
FirstConvertRaised ==
    /\ Len(convLog) >= 1
    /\ (~input.pdf \/ 1 \in input.raises)

\* the PDF name a script works on
PdfNameOf(s, in) ==
    IF s \in {"final_offline_parser", "offline_pdf_parser", "short_offline_processor"}
    THEN CompaniesHouseDocument
    ELSE IF s \in {"fast_gpu_parser", "simple_vlm_parser"}
    THEN CompaniesHouseDocument2
    ELSE in.name

\* C1: every script that accepts or hard-codes a PDF path exits with code 1
\* when that PDF does not exist.
C1_MissingPdfExits1 ==
    (Exited /\ script \in TakesPdfPath /\ ~input.pdf) => exitCode = 1

\* C2: in final_offline_parser, multi_gpu_offline_parser and
\* vlm_smoldocling_parser a conversion call that raises ends the run with
\* exit code 1 before any extraction or output write; where the failure is
\* turned into sys.exit(1) inside the processing function, main's own
\* `except Exception` block is never entered.
C2_ConversionFailureExits1 ==
    (/\ script \in {"final_offline_parser", "multi_gpu_offline_parser",
                    "vlm_smoldocling_parser"}
     /\ FirstConvertRaised)
    => /\ ~extracted
       /\ files = {}
       /\ todo = <<>> => outcome # "ok"
       /\ Exited => exitCode = 1
       /\ script \in {"final_offline_parser", "vlm_smoldocling_parser"}
            => \A i \in DOMAIN handled : handled[i] # "main"

C2_Witness ==
    /\ script = "final_offline_parser"
    /\ FirstConvertRaised
    /\ handled = <<"process_pdf_offline">>
    /\ Exited
    /\ exitCode = 1

\* C4: with num_processes > 1 multiprocess_parser has more than one process
\* perform conversion work for the request.
C4_TrueParallel ==
    (/\ script = "multiprocess_parser"
     /\ input.nproc > 1
     /\ Exited
     /\ exitCode = 0)
    => Cardinality({convLog[i].proc : i \in DOMAIN convLog}) > 1

\* C7: a parser that persists text, Markdown and JSON leaves
\* <name>_text.txt, <name>_content.md and <name>_content.json in the output
\* directory after a successful run, <name> being the PDF's stem.
C7_ThreeOutputFiles ==
    (/\ script \in {"final_offline_parser", "offline_pdf_parser",
                    "multi_gpu_offline_parser"}
     /\ Exited
     /\ exitCode = 0)
    => LET stem == Stem(PdfNameOf(script, input))
       IN  { Path("output", stem, "_text.txt"),
             Path("output", stem, "_content.md"),
             Path("output", stem, "_content.json") } \subseteq files

\* C8: in a script that builds pipeline options, the converter on which
\* convert() is called was constructed with those options.
C8_ConverterBoundToOptions ==
    \A i \in DOMAIN convLog : convLog[i].opts => convLog[i].conv = "bound"

\* C9: the offline-mode flags and DOCLING_ARTIFACTS_PATH are all set in the
\* environment before the first conversion call is made.
C9_EnvBeforeConversion ==
    \A i \in DOMAIN convLog :
        OfflineFlags \cup {"DOCLING_ARTIFACTS_PATH"} \subseteq convLog[i].env

\* the scripts that need ~/.cache/docling/models
NeedsModelsDir == {"final_offline_parser", "offline_pdf_parser",
                   "multi_gpu_offline_parser"}

\* C11: when ~/.cache/docling/models does not exist, final_offline_parser,
\* offline_pdf_parser and multi_gpu_offline_parser exit with code 1 without
\* constructing a converter, calling convert or setting
\* DOCLING_ARTIFACTS_PATH; and the models directory is never checked before
\* the PDF's existence has been.
C11_MissingModelsExits1 ==
    script \in NeedsModelsDir =>
        /\ ~input.models =>
               /\ conv = "none"
               /\ ~optsBuilt
               /\ convLog = <<>>
               /\ "DOCLING_ARTIFACTS_PATH" \notin env
               /\ files = {}
               /\ todo = <<>> => outcome = "SystemExit1"
               /\ Exited => exitCode = 1
        /\ \A i \in DOMAIN checked :
               checked[i] = "models" => \E j \in 1..(i - 1) : checked[j] = "pdf"

C11_Witness ==
    /\ script = "multi_gpu_offline_parser"
    /\ input.pdf
    /\ ~input.models
    /\ checked = <<"pdf", "models">>
    /\ Exited
    /\ exitCode = 1

----------------------------------------------------------------------------
(* The model downloaders and the test scripts.  They run like the parsers,  *)
(* one effect at a time, with two more kinds of effect: a repository        *)
(* download and the return of a test function.                              *)

Download(repo, ok) == Ev("download", [name |-> repo, ok |-> ok])
Returns(name, v)   == Ev("test", [name |-> name, ok |-> v])

\* sys.exit(0)
SysExit0 == [ev |-> <<>>, out |-> "SystemExit0", ret |-> TRUE]

Downloaders == {"correct_model_downloader", "download_docling_models",
                "proper_model_downloader"}

TestScripts == {"test_docling_2.2.1", "test_basic_conversion",
                "test_offline_processing"}

\* len(model_repos): the repositories are numbered in dictionary order
NumRepos(s) == IF s = "proper_model_downloader" THEN 5 ELSE 3

ToolInputs ==
    [ name     : CliNames,             \* the first PDF of the directory, if any
      pdf      : BOOLEAN,              \* the directory holds a PDF
      raises   : SUBSET (1..MaxCalls), \* the conversion calls the library fails
      repo     : BOOLEAN,              \* ./test_docling_2.2.1.py exists
      dl       : BOOLEAN,              \* ./downloaded_models exists
      fails    : SUBSET (1..NumRepos("proper_model_downloader")),
                                            \* the repositories whose download raises
      imports  : BOOLEAN,              \* the docling modules can be imported
      init     : BOOLEAN,              \* test_model_initialization succeeds
      pipeline : BOOLEAN,              \* PdfPipelineOptions(...) can be built
      ctor     : BOOLEAN ]             \* DocumentConverter() can be built

\* the inputs a script reads; the others are held at one value
ToolInputsOf(s) ==
    IF s \in Downloaders
    THEN { in \in ToolInputs :
             /\ in.name = <<"a", ".", "p", "d", "f">>
             /\ in.pdf /\ in.dl /\ in.imports /\ in.init /\ in.pipeline /\ in.ctor
             /\ in.raises = {}
             /\ in.fails \subseteq 1..NumRepos(s) }
    ELSE { in \in ToolInputs :
             /\ in.repo
             /\ in.fails = {}
             /\ in.raises \subseteq {1}
             /\ (s # "test_docling_2.2.1" =>
                    /\ in.name = <<"a", ".", "p", "d", "f">>
                    /\ in.dl /\ in.init)
             /\ (s = "test_basic_conversion" => in.pipeline) }

----------------------------------------------------------------------------
(* correct_model_downloader.py, download_docling_models.py and             *)
(* proper_model_downloader.py                                              *)

RECURSIVE DownloadUntilFailure(_, _, _)
\* the loop leaving at the first download that raises
DownloadUntilFailure(i, n, fails) ==
    IF i > n
    THEN <<>>
    ELSE IF i \in fails
         THEN <<Download(i, FALSE), Handler("snapshot_download")>>
         ELSE <<Download(i, TRUE)>> \o DownloadUntilFailure(i + 1, n, fails)

RECURSIVE DownloadLoop(_, _, _)
\* for model_name, repo_id in model_repos.items(): try the download; on an
\* exception print and continue
DownloadLoop(i, n, fails) ==
    IF i > n
    THEN <<>>
    ELSE (IF i \in fails
          THEN <<Download(i, FALSE), Handler("snapshot_download")>>
          ELSE <<Download(i, TRUE)>>)
         \o DownloadLoop(i + 1, n, fails)

\* the keys of downloaded_models once the effects evs have happened
DownloadedModels(evs) ==
    { evs[k].arg.name : k \in { j \in DOMAIN evs : evs[j].ev = "download" /\ evs[j].arg.ok } }

\* download_correct_models / download_proper_models:
\* return len(downloaded_models) > 0
DownloadModels(n, in) ==
    LET evs == DownloadLoop(1, n, in.fails)
    IN  Ret(evs, Cardinality(DownloadedModels(evs)) > 0)

\* download_essential_models: the same loop inside an outer try
DownloadEssentialModels(n, in) ==
    ExceptException(DownloadModels(n, in),
                    Ret(<<Handler("download_essential_models")>>, FALSE))

\* main of correct_model_downloader and proper_model_downloader
DownloaderMain(s, in) ==
    Then(Ok(<<Check("test_docling_2.2.1.py")>>),
         IF ~in.repo
         THEN SysExit1
         ELSE ExitUnlessTrue(DownloadModels(NumRepos(s), in)))

\* main of download_docling_models: check_downloaded_models follows a
\* successful download
DownloadDoclingMain(s, in) ==
    Then(Ok(<<Check("test_docling_2.2.1.py")>>),
         IF ~in.repo
         THEN SysExit1
         ELSE LET r == DownloadEssentialModels(NumRepos(s), in)
              IN  IF r.out = "ok" /\ r.ret
                  THEN Then(r, Ok(<<Check("downloaded_models")>>))
                  ELSE ExitUnlessTrue(r))

----------------------------------------------------------------------------
(* test_docling_2.2.1.py, test_basic_conversion.py and                     *)
(* test_offline_processing.py                                              *)

\* from docling... import ...
ImportOrRaise(in) == IF in.imports THEN Ok(<<>>) ELSE Raise(<<>>)

\* PdfPipelineOptions(...)
BuildOptionsOrRaise(in) == IF in.pipeline THEN Ok(<<BuildOptions>>) ELSE Raise(<<>>)

\* DocumentConverter()
ConstructOrRaise(in) == IF in.ctor THEN Ok(<<Construct("default")>>) ELSE Raise(<<>>)

\* a test function returns: its name and value are noted
Returned(name, r) ==
    IF r.out = "ok"
    THEN [r EXCEPT !.ev = Append(r.ev, Returns(name, r.ret))]
    ELSE r

\* the next statement run whatever the test returned
KeepGoing(r, rest) == Then(r, rest)

\* if not <r>: return False -- otherwise go on with rest
Unless(r, rest) ==
    IF r.out = "ok" /\ ~r.ret THEN Ret(r.ev, FALSE) ELSE Then(r, rest)

\* success = main(); ...; sys.exit(0 if success else 1)
ExitWith(success) == IF success THEN SysExit0 ELSE SysExit1

\* try: <body> / except Exception: print; return False
ReturnFalseOnException(name, body) ==
    ExceptException(body, Ret(<<Handler(name)>>, FALSE))

\* a conversion that raises makes the function return False
ConvertFailureFails(name, in, afterwards) ==
    ExceptException(Then(Convert(in, 1), Ret(afterwards, TRUE)),
                    Ret(<<Handler(name)>>, FALSE))

\* convert the first PDF; a conversion that raises is reported and the
\* function still returns True
ConvertExpectingFailure(name, in, afterwards) ==
    ExceptException(Then(Convert(in, 1), Ret(afterwards, TRUE)),
                    Ret(<<Handler(name)>>, TRUE))

TestDoclingImports(in) ==
    Returned("test_docling_imports",
        ReturnFalseOnException("test_docling_imports", ImportOrRaise(in)))

TestModelInitialization(in) ==
    Returned("test_model_initialization",
        ReturnFalseOnException("test_model_initialization",
            IF in.init THEN Ok(<<>>) ELSE Raise(<<>>)))

TestPipelineConfiguration(in) ==
    Returned("test_pipeline_configuration",
        ReturnFalseOnException("test_pipeline_configuration",
            Then(BuildOptionsOrRaise(in), ConstructOrRaise(in))))

TestOfflineMode(in) ==
    Returned("test_offline_mode",
        ReturnFalseOnException("test_offline_mode",
            Then(Ok(<<SetEnv("HF_HUB_OFFLINE"), SetEnv("TRANSFORMERS_OFFLINE"),
                      Check("downloaded_models")>>),
                 IF ~in.dl
                 THEN Ret(<<>>, FALSE)
                 ELSE Then(Ok(<<SetEnv("DOCLING_ARTIFACTS_PATH")>>),
                           BuildOptionsOrRaise(in)))))

\* main of test_docling_2.2.1: the four tests, then check_model_requirements
TestDoclingMain(in) ==
    Unless(TestDoclingImports(in),
    Unless(TestModelInitialization(in),
    Unless(TestPipelineConfiguration(in),
    Unless(TestOfflineMode(in),
           Ret(<<Check("local_models")>>, TRUE)))))

RunOfflineProcessing(in) ==
    Returned("run_offline_processing",
        ReturnFalseOnException("run_offline_processing",
            Then(Ok(<<SetEnv("HF_HUB_OFFLINE"), SetEnv("TRANSFORMERS_OFFLINE"),
                      Check("downloaded_models")>>),
                 IF ~in.dl
                 THEN Ret(<<>>, FALSE)
                 ELSE Then(Ok(<<SetEnv("DOCLING_ARTIFACTS_PATH")>>),
                      Then(BuildOptionsOrRaise(in),
                      Then(ConstructOrRaise(in),
                           IF ~in.pdf
                           THEN Ret(<<>>, FALSE)
                           ELSE ConvertExpectingFailure(
                                    "run_offline_processing.convert", in,
                                    <<Write(Path(".", Stem(in.name),
                                                 "_offline_with_models_output.txt")),
                                      Write(Path(".", Stem(in.name),
                                                 "_offline_with_models_output.md"))>>)))))))

\* the module-level code of test_docling_2.2.1
TestDoclingModule(in) ==
    LET success == TestDoclingMain(in)
    IN  IF success.out # "ok"
        THEN success
        ELSE Then(success,
             Then(IF success.ret THEN RunOfflineProcessing(in) ELSE Ok(<<>>),
                  ExitWith(success.ret)))

TestBasicConversion(in) ==
    Returned("test_basic_conversion",
        ReturnFalseOnException("test_basic_conversion",
            Then(ImportOrRaise(in),
            Then(ConstructOrRaise(in),
                 IF ~in.pdf
                 THEN Ret(<<>>, FALSE)
                 ELSE ConvertExpectingFailure("test_basic_conversion.convert",
                                              in, <<>>)))))

TestBasicMain(in) == Unless(TestBasicConversion(in), Ret(<<>>, TRUE))

TestBasicModule(in) ==
    LET success == TestBasicMain(in)
    IN  IF success.out # "ok" THEN success ELSE Then(success, ExitWith(success.ret))

\* test_offline_processing.setup_offline_environment
TopSetupOfflineEnvironment ==
    Ok(<<SetEnv("HF_HUB_OFFLINE"), SetEnv("TRANSFORMERS_OFFLINE"),
         SetEnv("DOCLING_ARTIFACTS_PATH")>>)

\* create_offline_pipeline: nothing here is caught
CreateOfflinePipeline(in) == Then(ImportOrRaise(in), BuildOptionsOrRaise(in))

TestOfflineConversion(in) ==
    Returned("test_offline_conversion",
        ReturnFalseOnException("test_offline_conversion",
            Then(ImportOrRaise(in),
            Then(ConstructOrRaise(in),
                 IF ~in.pdf
                 THEN Ret(<<>>, FALSE)
                 ELSE ConvertExpectingFailure("test_offline_conversion.convert",
                                              in, <<>>)))))

TestOfflineMain(in) ==
    Then(TopSetupOfflineEnvironment,
    Then(CreateOfflinePipeline(in),
         Unless(TestOfflineConversion(in),
                Ret(<<Check("models"), Check("easyocr")>>, TRUE))))

TestOfflineModule(in) ==
    LET success == TestOfflineMain(in)
    IN  IF success.out # "ok" THEN success ELSE Then(success, ExitWith(success.ret))

----------------------------------------------------------------------------
(* Running a downloader or a test script *)

ToolScripts == Downloaders \cup TestScripts

RunTool(s, in) ==
    CASE s = "correct_model_downloader" -> DownloaderMain(s, in)
      [] s = "proper_model_downloader"  -> DownloaderMain(s, in)
      [] s = "download_docling_models"  -> DownloadDoclingMain(s, in)
      [] s = "test_docling_2.2.1"       -> TestDoclingModule(in)
      [] s = "test_basic_conversion"    -> TestBasicModule(in)
      [] s = "test_offline_processing"  -> TestOfflineModule(in)

InitTools ==
    /\ script \in ToolScripts
    /\ input \in ToolInputsOf(script)
    /\ todo = RunTool(script, input).ev
    /\ outcome = RunTool(script, input).out
    /\ env = {}
    /\ optsBuilt = FALSE
    /\ conv = "none"
    /\ convLog = <<>>
    /\ extracted = FALSE
    /\ files = {}
    /\ handled = <<>>
    /\ checked = <<>>
    /\ steps = <<>>
    /\ status = "running"
    /\ exitCode = 0
    /\ PoolIdle
    /\ FnIdle
    /\ WebIdle

\* snapshot_download(repo_id=...) returns or raises
DoDownload ==
    /\ Next1("download")
    /\ steps' = Append(steps, [what |-> "download", name |-> Head(todo).arg.name,
                               ok |-> Head(todo).arg.ok])
    /\ UNCHANGED <<env, optsBuilt, conv, convLog, extracted, files, handled, checked>>

\* a test function returns its verdict
DoTest ==
    /\ Next1("test")
    /\ steps' = Append(steps, [what |-> "test", name |-> Head(todo).arg.name,
                               ok |-> Head(todo).arg.ok])
    /\ UNCHANGED <<env, optsBuilt, conv, convLog, extracted, files, handled, checked>>

NextTools ==
    \/ DoSetEnv
    \/ DoBuildOptions
    \/ DoConstruct
    \/ DoConvert
    \/ DoWrite
    \/ DoHandler
    \/ DoCheck
    \/ DoDownload
    \/ DoTest
    \/ DoExit

SpecTools == InitTools /\ [][NextTools]_vars

----------------------------------------------------------------------------
(* Claims about the downloaders and the test scripts *)

\* the downloads attempted so far, in order
Attempts == SelectSeq(steps, LAMBDA x : x.what = "download")

\* C12: in each model downloader a repository whose download raises is
\* skipped and the remaining ones are still attempted, each at most once and
\* in order; main exits with code 1 exactly when no repository was
\* downloaded (the download function returned False).
C12_DownloadFailuresSkipped ==
    script \in Downloaders =>
        /\ \A i \in DOMAIN Attempts :
               /\ Attempts[i].name = i
               /\ Attempts[i].ok = (i \notin input.fails)
        /\ Len(Attempts) <= NumRepos(script)
        /\ Exited =>
               /\ input.repo => Len(Attempts) = NumRepos(script)
               /\ exitCode = 1 <=> ~(\E i \in DOMAIN Attempts : Attempts[i].ok)
               /\ exitCode \in {0, 1}

C12_Witness ==
    /\ script = "proper_model_downloader"
    /\ Exited
    /\ exitCode = 0
    /\ Len(Attempts) = 5
    /\ ~Attempts[1].ok
    /\ ~Attempts[2].ok
    /\ Attempts[3].ok
    /\ ~Attempts[4].ok

\* the tests main has run so far, in order
MainTests ==
    SelectSeq(steps, LAMBDA x : x.what = "test" /\ x.name # "run_offline_processing")

\* the order in which main of test_docling_2.2.1 calls its tests
TestOrder == << "test_docling_imports", "test_model_initialization",
                "test_pipeline_configuration", "test_offline_mode" >>

\* main of test_docling_2.2.1 returned True: all four tests ran and passed
MainReturnedTrue ==
    /\ Len(MainTests) = Len(TestOrder)
    /\ \A i \in DOMAIN MainTests : MainTests[i].ok

\* run_offline_processing has returned
OfflineProcessingRan ==
    \E i \in DOMAIN steps : steps[i].name = "run_offline_processing"

\* C13: main of test_docling_2.2.1 runs the import, model-initialization,
\* pipeline-configuration and offline-mode tests in that order and stops at
\* the first that fails; the exit code is 0 exactly when main returned True,
\* whatever run_offline_processing returns afterwards.
C13_TestsInOrder ==
    script = "test_docling_2.2.1" =>
        /\ Len(MainTests) <= Len(TestOrder)
        /\ \A i \in DOMAIN MainTests :
               /\ MainTests[i].name = TestOrder[i]
               /\ ~MainTests[i].ok => i = Len(MainTests)
        /\ OfflineProcessingRan => MainReturnedTrue
        /\ Exited =>
               /\ exitCode = 0 <=> MainReturnedTrue
               /\ exitCode \in {0, 1}
               /\ MainReturnedTrue => OfflineProcessingRan

C13_Witness ==
    /\ script = "test_docling_2.2.1"
    /\ Exited
    /\ exitCode = 0
    /\ \E i \in DOMAIN steps :
           steps[i].name = "run_offline_processing" /\ ~steps[i].ok

\* the verdict of the conversion test function, once it has returned
ConversionTest ==
    SelectSeq(steps, LAMBDA x : x.name \in {"test_basic_conversion",
                                            "test_offline_conversion"})

\* something other than the conversion call raises in this run
RaisesOutsideConversion == ~input.imports \/ ~input.ctor \/ ~input.pipeline

\* C14: in test_basic_conversion and test_offline_processing a conversion
\* call that raises is expected: the test function returns True and the
\* script exits with code 0.  The test returns False, and the script exits
\* with code 1, only when no PDF is found or something other than the
\* conversion call raises.
C14_ConversionFailureExpected ==
    script \in {"test_basic_conversion", "test_offline_processing"} =>
        /\ Len(ConversionTest) <= 1
        /\ (convLog # <<>> /\ ConversionTest # <<>>) => ConversionTest[1].ok
        /\ (convLog # <<>> /\ Exited) =>
               /\ ConversionTest # <<>>
               /\ exitCode = 0
        /\ \A i \in DOMAIN ConversionTest :
               ~ConversionTest[i].ok => (~input.pdf \/ RaisesOutsideConversion)
        /\ (Exited /\ exitCode # 0) =>
               /\ exitCode = 1
               /\ ~input.pdf \/ RaisesOutsideConversion

C14_Witness ==
    /\ script = "test_offline_processing"
    /\ Len(convLog) = 1
    /\ 1 \in input.raises
    /\ handled = <<"test_offline_conversion.convert">>
    /\ ConversionTest # <<>>
    /\ ConversionTest[1].ok
    /\ Exited
    /\ exitCode = 0

----------------------------------------------------------------------------
(* The worker-pool scripts: parallel_gpu_parser.py, short_ocr_vlm_parser.py *)
(* and ultra_short_parser.py                                                *)

\* at most MaxFiles entries in the working directory
MaxFiles == 4

\* torch.cuda.device_count() returns 0..MaxGpus
MaxGpus == 2

\* the entries a working directory may hold
DirNames == { <<"a", ".", "p", "d", "f">>,
              <<".", "p", "d", "f">>,
              <<".", "p", "d", "f", ".", "p", "d", "f">>,
              <<"b", ".", "p", "d", "f">>,
              <<"n", ".", "t", "x", "t">> }

\* os.listdir('.'): the entries, each once, in an arbitrary order
Listings ==
    { l \in UNION { [1..n -> DirNames] : n \in 0..MaxFiles } :
        \A i, j \in DOMAIN l : i # j => l[i] # l[j] }

\* f.endswith('.pdf')
EndsWithPdf(f) ==
    /\ Len(f) >= 4
    /\ SubSeq(f, Len(f) - 3, Len(f)) = <<".", "p", "d", "f">>

\* [f for f in os.listdir('.') if f.endswith('.pdf')]
PdfFiles(listing) == SelectSeq(listing, EndsWithPdf)

\* get_available_gpus: the device count, or 1 when torch cannot be imported
GetAvailableGpus(in) == IF in.torch THEN in.devices ELSE 1

\* every file on the default GPU
GpuAlwaysZero(i, numGpus) == 0

\* gpu_id = i % num_gpus, i counted from 0
GpuFor(i, numGpus) == i % numGpus

PoolProgs == {"parallel_gpu_parser", "short_ocr_vlm_parser", "ultra_short_parser"}

PoolInputs ==
    [ listing : Listings,          \* the working directory (parallel_gpu_parser)
      torch   : BOOLEAN,           \* torch can be imported
      devices : 0..MaxGpus,        \* torch.cuda.device_count()
      name    : CliNames,          \* the PDF argument (short parsers)
      pdf     : BOOLEAN,           \* that PDF exists
      nproc   : 1..MaxProcs ]      \* the process-count argument (short parsers)

\* the inputs a program reads; the others are held at one value
PoolInputsOf(p) ==
    IF p = "parallel_gpu_parser"
    THEN { in \in PoolInputs :
             /\ in.name = <<"a", ".", "p", "d", "f">>
             /\ in.pdf
             /\ in.nproc = 1
             /\ (~in.torch => in.devices = 0) }
    ELSE { in \in PoolInputs :
             /\ in.listing = <<>>
             /\ in.torch
             /\ in.devices = 0 }

Task(file, gpu, method) == [file |-> file, gpu |-> gpu, method |-> method, st |-> "pending"]

Running(t)  == t.st \in {"converting", "writing_text", "writing_md"}
Finished(t) == t.st \in {"done", "failed"}

\* the two files a task writes
TextPath(p, t) ==
    IF p = "parallel_gpu_parser"
    THEN Path(<<"output_gpu_", ToString(t.gpu)>>, Stem(t.file), "_text.txt")
    ELSE Path(<<"output/", t.method>>, Stem(t.file),
              IF t.method = "ocr" THEN "_ocr.txt" ELSE "_vlm.txt")

MdPath(p, t) ==
    IF p = "parallel_gpu_parser"
    THEN Path(<<"output_gpu_", ToString(t.gpu)>>, Stem(t.file), "_content.md")
    ELSE Path(<<"output/", t.method>>, Stem(t.file),
              IF t.method = "ocr" THEN "_ocr.md" ELSE "_vlm.md")

\* what a worker returns: the content dictionary, or None
None == [file |-> <<>>, gpu_id |-> -1]

ResultOf(t) ==
    IF t.st = "done" THEN [file |-> t.file, gpu_id |-> t.gpu] ELSE None

\* the statistics dictionary a worker of the short parsers returns
StatsOf(t) == [method |-> t.method, file |-> t.file]

\* the results in the order the workers ended, last first
ResultsReversed(ts) == [k \in DOMAIN ts |-> StatsOf(ts[Len(ts) + 1 - k])]

\* pool.starmap(f, args), and [f(a), f(b)]: one result per argument, in the
\* order of the arguments
StarmapResults(ts) == [k \in DOMAIN ts |-> StatsOf(ts[k])]

\* every result appended, None included
TruthyAlways(r) == TRUE

\* `if result:` -- None is false, the content dictionary is never empty
Truthy(r) == r # None

InitPool ==
    /\ prog \in PoolProgs
    /\ pin \in PoolInputsOf(prog)
    /\ ppc = "start"
    /\ tasks = <<>>
    /\ maxWorkers = 0
    /\ collected = {}
    /\ results = <<>>
    /\ pExit = 0
    /\ CliIdle
    /\ WebIdle
    /\ FnIdle

\* the tasks parallel_gpu_parser submits for its PDF files
PgTasks(pdfFiles, numGpus) ==
    [k \in 1..Len(pdfFiles) |-> Task(pdfFiles[k], GpuFor(k - 1, numGpus), "ocr")]

\* parallel_gpu_parser.main up to the submission of the tasks
PgSubmit ==
    /\ prog = "parallel_gpu_parser"
    /\ ppc = "start"
    /\ LET pdfFiles == PdfFiles(pin.listing)
           numGpus  == GetAvailableGpus(pin)
       IN  IF pdfFiles = <<>>
           THEN \* sys.exit(1)
                /\ ppc' = "exited"
                /\ pExit' = 1
                /\ UNCHANGED <<tasks, maxWorkers>>
           ELSE IF numGpus <= 0
           THEN \* ProcessPoolExecutor(max_workers=num_gpus) raises ValueError
                /\ ppc' = "exited"
                /\ pExit' = 1
                /\ maxWorkers' = numGpus
                /\ UNCHANGED tasks
           ELSE /\ ppc' = "pool"
                /\ maxWorkers' = numGpus
                /\ tasks' = PgTasks(pdfFiles, numGpus)
                /\ UNCHANGED pExit
    /\ UNCHANGED <<prog, pin, collected, results>>
    /\ UNCHANGED <<cliVars, webVars, fnVars>>

\* the short parsers' main up to the start of the processing
ShSubmit ==
    /\ prog \in {"short_ocr_vlm_parser", "ultra_short_parser"}
    /\ ppc = "start"
    /\ IF prog = "short_ocr_vlm_parser" /\ ~pin.pdf
       THEN /\ ppc' = "exited"
            /\ pExit' = 1
            /\ UNCHANGED <<tasks, maxWorkers>>
       ELSE /\ ppc' = "pool"
            /\ maxWorkers' = (IF pin.nproc > 1 THEN pin.nproc ELSE 1)
            /\ tasks' = <<Task(pin.name, 0, "ocr"), Task(pin.name, 0, "vlm")>>
            /\ UNCHANGED pExit
    /\ UNCHANGED <<prog, pin, collected, results>>
    /\ UNCHANGED <<cliVars, webVars, fnVars>>

\* the short parsers with a process count of 1 call both functions themselves
Sequential == prog # "parallel_gpu_parser" /\ pin.nproc <= 1

SetSt(i, st) == [tasks EXCEPT ![i].st = st]

TaskFrame ==
    /\ UNCHANGED <<prog, pin, ppc, maxWorkers, collected, results, pExit>>
    /\ UNCHANGED <<cliVars, webVars, fnVars>>

\* a free worker takes the next task of the queue and starts its conversion
TaskStart(i) ==
    /\ ppc = "pool"
    /\ tasks[i].st = "pending"
    /\ \A j \in 1..(i - 1) : tasks[j].st # "pending"
    /\ Cardinality({j \in DOMAIN tasks : Running(tasks[j])}) < maxWorkers
    /\ Sequential => \A j \in DOMAIN tasks : tasks[j].st # "failed"
    /\ tasks' = SetSt(i, "converting")
    /\ TaskFrame

\* convert() returned; the text file is opened for writing
TaskConverted(i) ==
    /\ ppc = "pool"
    /\ tasks[i].st = "converting"
    /\ pin.pdf
    /\ tasks' = SetSt(i, "writing_text")
    /\ TaskFrame

\* the text file is written and closed; the Markdown file is opened
TaskTextWritten(i) ==
    /\ ppc = "pool"
    /\ tasks[i].st = "writing_text"
    /\ tasks' = SetSt(i, "writing_md")
    /\ TaskFrame

\* the Markdown file is written and closed; the worker returns its result
TaskFinish(i) ==
    /\ ppc = "pool"
    /\ tasks[i].st = "writing_md"
    /\ tasks' = SetSt(i, "done")
    /\ TaskFrame

\* the conversion or a write raises
TaskFail(i) ==
    /\ ppc = "pool"
    /\ Running(tasks[i])
    /\ tasks' = SetSt(i, "failed")
    /\ TaskFrame

\* parallel_gpu_parser: as_completed yields a finished future
PgCollect(i) ==
    /\ prog = "parallel_gpu_parser"
    /\ ppc = "pool"
    /\ i \notin collected
    /\ Finished(tasks[i])
    /\ collected' = collected \cup {i}
    /\ results' = (IF Truthy(ResultOf(tasks[i]))
                   THEN Append(results, ResultOf(tasks[i]))
                   ELSE results)
    /\ UNCHANGED <<prog, pin, ppc, tasks, maxWorkers, pExit>>
    /\ UNCHANGED <<cliVars, webVars, fnVars>>

\* parallel_gpu_parser: every future is consumed and the pool is left
PgLeavePool ==
    /\ prog = "parallel_gpu_parser"
    /\ ppc = "pool"
    /\ collected = DOMAIN tasks
    /\ ppc' = "summary"
    /\ UNCHANGED <<prog, pin, tasks, maxWorkers, collected, results, pExit>>
    /\ UNCHANGED <<cliVars, webVars, fnVars>>

\* parallel_gpu_parser: the summary divides by len(results)
PgSummary ==
    /\ prog = "parallel_gpu_parser"
    /\ ppc = "summary"
    /\ ppc' = "exited"
    /\ pExit' = (IF Len(results) = 0 THEN 1 ELSE 0)
    /\ UNCHANGED <<prog, pin, tasks, maxWorkers, collected, results>>
    /\ UNCHANGED <<cliVars, webVars, fnVars>>

\* the short parsers: starmap returns the results in task order, or re-raises
\* a worker's exception once every task has ended; the sequential branch
\* stops at the first call that raises
ShFinish ==
    /\ prog \in {"short_ocr_vlm_parser", "ultra_short_parser"}
    /\ ppc = "pool"
    /\ \A j \in DOMAIN tasks : ~Running(tasks[j])
    /\ IF Sequential
       THEN \/ \A j \in DOMAIN tasks : tasks[j].st = "done"
            \/ \E j \in DOMAIN tasks : tasks[j].st = "failed"
       ELSE \A j \in DOMAIN tasks : Finished(tasks[j])
    /\ ppc' = "exited"
    /\ IF \E j \in DOMAIN tasks : tasks[j].st = "failed"
       THEN /\ pExit' = 1
            /\ UNCHANGED results
       ELSE /\ pExit' = 0
            /\ results' = StarmapResults(tasks)
    /\ UNCHANGED <<prog, pin, tasks, maxWorkers, collected>>
    /\ UNCHANGED <<cliVars, webVars, fnVars>>

NextPool ==
    \/ PgSubmit
    \/ ShSubmit
    \/ \E i \in DOMAIN tasks : TaskStart(i)
    \/ \E i \in DOMAIN tasks : TaskConverted(i)
    \/ \E i \in DOMAIN tasks : TaskTextWritten(i)
    \/ \E i \in DOMAIN tasks : TaskFinish(i)
    \/ \E i \in DOMAIN tasks : TaskFail(i)
    \/ \E i \in DOMAIN tasks : PgCollect(i)
    \/ PgLeavePool
    \/ PgSummary
    \/ ShFinish

SpecPool == InitPool /\ [][NextPool]_vars

----------------------------------------------------------------------------
(* Claims about the worker-pool scripts *)

\* main has left the pool: every future has been consumed
PgCollected ==
    /\ prog = "parallel_gpu_parser"
    /\ ppc \in {"summary", "exited"}
    /\ tasks # <<>>

DoneTasks == {k \in DOMAIN tasks : tasks[k].st = "done"}

\* C3: in parallel_gpu_parser a PDF whose processing raises is skipped
\* without stopping the others: once all futures are complete every
\* submitted PDF has been processed, and results holds exactly one
\* dictionary for each PDF that succeeded and nothing for one that failed.
C3_FailuresSkipped ==
    PgCollected =>
        /\ \A k \in DOMAIN tasks : Finished(tasks[k])
        /\ Len(results) = Cardinality(DoneTasks)
        /\ \A r \in DOMAIN results :
               /\ results[r] # None
               /\ \E k \in DoneTasks : results[r].file = tasks[k].file
        /\ \A k \in DoneTasks :
               Cardinality({r \in DOMAIN results : results[r].file = tasks[k].file}) = 1
        /\ \A k \in DOMAIN tasks \ DoneTasks :
               \A r \in DOMAIN results : results[r].file # tasks[k].file

C3_Witness ==
    /\ PgCollected
    /\ \E k \in DOMAIN tasks : tasks[k].st = "failed"
    /\ \E k \in DOMAIN tasks : tasks[k].st = "done"
    /\ Len(results) >= 1

\* the number of tasks submitted with GPU id g
AssignedTo(g) == Cardinality({k \in DOMAIN tasks : tasks[k].gpu = g})

\* C5: parallel_gpu_parser submits the PDF at position i of its list with
\* gpu_id = i mod num_gpus: every id lies in 0..num_gpus-1 and the numbers of
\* files given to any two ids differ by at most one.
C5_GpuAssignment ==
    (prog = "parallel_gpu_parser" /\ ppc # "start" /\ tasks # <<>>) =>
        LET n == GetAvailableGpus(pin)
            pdfFiles == PdfFiles(pin.listing)
        IN  /\ maxWorkers = n
            /\ Len(tasks) = Len(pdfFiles)
            /\ \A k \in DOMAIN tasks :
                   /\ tasks[k].file = pdfFiles[k]
                   /\ tasks[k].gpu \in 0..(n - 1)
                   /\ tasks[k].gpu = (k - 1) % n
            /\ \A g, h \in 0..(n - 1) : AssignedTo(g) - AssignedTo(h) <= 1

C5_Witness ==
    /\ prog = "parallel_gpu_parser"
    /\ ppc = "pool"
    /\ maxWorkers = 2
    /\ Len(tasks) = 3
    /\ AssignedTo(0) = 2
    /\ AssignedTo(1) = 1

\* the file a task has open for writing
OpenPath(k) ==
    IF tasks[k].st = "writing_text"
    THEN TextPath(prog, tasks[k])
    ELSE MdPath(prog, tasks[k])

Writing(k) == tasks[k].st \in {"writing_text", "writing_md"}

\* C6: no two worker tasks running at the same time write the same output
\* file path.
C6_NoSharedOutputPath ==
    \A i, j \in DOMAIN tasks :
        (i # j /\ Writing(i) /\ Writing(j)) => OpenPath(i) # OpenPath(j)

\* C15: in parallel_gpu_parser no two conversions in flight at the same
\* time run with the same gpu_id.
C15_DistinctGpusInFlight ==
    prog = "parallel_gpu_parser" =>
        \A i, j \in DOMAIN tasks :
            (i # j /\ tasks[i].st = "converting" /\ tasks[j].st = "converting")
            => tasks[i].gpu # tasks[j].gpu

\* C16: main of parallel_gpu_parser prints its summary and ends normally for
\* every combination of per-file successes and failures, the one where every
\* PDF fails included.
C16_SummaryAlwaysEndsNormally ==
    (prog = "parallel_gpu_parser" /\ ppc = "exited" /\ tasks # <<>>) => pExit = 0

\* C17: the GPU count parallel_gpu_parser uses as max_workers and as the
\* modulus of the assignment is at least 1, whatever the device count is.
C17_GpuCountPositive ==
    (prog = "parallel_gpu_parser" /\ ppc # "start" /\ PdfFiles(pin.listing) # <<>>)
    => maxWorkers >= 1

----------------------------------------------------------------------------
(* streamlit_app.py: one browser session.  Every interaction reruns main,  *)
(* which renders the processing tab, the chunking tab and the chat tab in   *)
(* turn; at most one button is pressed in a rerun.                          *)

\* at most MaxDocs conversion calls are made in a session
MaxDocs == 3

\* the PDFs a user may upload are numbered 1..MaxUploads
MaxUploads == 2

\* the chat history is followed up to MaxMsgs messages
MaxMsgs == 4

CollectionNames == {"pdf_documents", "other"}

\* a converted document: which upload it came from and by which method
Doc(id, src, method) == [id |-> id, src |-> src, method |-> method]

NoDoc == Doc(0, 0, "")

\* a key missing from st.session_state
Absent == "absent"

\* st.session_state at the start of a session
EmptySession ==
    [ processed_doc    |-> NoDoc,
      markdown_content |-> 0,
      chunks           |-> 0,
      chunker          |-> FALSE,
      collection_name  |-> Absent,
      messages         |-> -1 ]

\* setup_offline_environment
WebOfflineEnv ==
    { "DOCLING_ARTIFACTS_PATH", "HF_HUB_OFFLINE", "TRANSFORMERS_OFFLINE",
      "HF_DATASETS_OFFLINE", "HF_HUB_DISABLE_TELEMETRY", "TOKENIZERS_PARALLELISM" }

\* chunking_embedding_tab returns at once unless a document was processed
ChunkTabShown(s) == s.processed_doc # NoDoc

\* the embedding section rendered whether or not there are chunks
EmbedSectionAlways(s) == TRUE

\* the chunk list and the embedding section are rendered only with chunks
EmbedSectionShown(s) == s.chunks # 0

\* chat_tab returns at once unless a collection was embedded
ChatShown(s) == s.collection_name # Absent

\* chat_tab creates the message list the first time it gets past its check
RenderChat(s) ==
    IF ChatShown(s) /\ s.messages = -1
    THEN [s EXCEPT !.messages = 0]
    ELSE s

\* the rest of a rerun after the processing tab: the two other tabs
RenderTabs(s) == RenderChat(s)

InitWeb ==
    /\ sess = EmptySession
    /\ uploaded = 0
    /\ wpc = "idle"
    /\ wrun = [compare |-> FALSE, method |-> "OCR", tmp |-> 0, src |-> 0,
               ocr |-> NoDoc, last |-> NoDoc]
    /\ tmpFiles = {}
    /\ webEnv = {}
    /\ webLog = <<>>
    /\ nextDoc = 1
    /\ CliIdle
    /\ PoolIdle
    /\ FnIdle

\* the user puts a file in the uploader, or removes it
WebUpload(f) ==
    /\ wpc = "idle"
    /\ uploaded # f
    /\ uploaded' = f
    /\ sess' = RenderTabs(sess)
    /\ UNCHANGED <<wpc, wrun, tmpFiles, webEnv, webLog, nextDoc>>
    /\ UNCHANGED <<cliVars, poolVars, fnVars>>

\* "Process PDF" is pressed: the environment is set and the upload is saved
\* to a temporary file
WebPressProcess(compare, method) ==
    /\ wpc = "idle"
    /\ uploaded # 0
    /\ nextDoc + (IF compare THEN 1 ELSE 0) <= MaxDocs
    /\ webEnv' = webEnv \cup WebOfflineEnv
    /\ tmpFiles' = tmpFiles \cup {nextDoc}
    /\ wrun' = [compare |-> compare, method |-> method, tmp |-> nextDoc,
                src |-> uploaded, ocr |-> NoDoc, last |-> NoDoc]
    /\ wpc' = "convert1"
    /\ webLog' = <<>>
    /\ UNCHANGED <<sess, uploaded, nextDoc>>
    /\ UNCHANGED <<cliVars, poolVars, fnVars>>

\* the comparison run the other way round, VLM first
MethodAtVlmFirst(pc, run) ==
    IF run.compare
    THEN (IF pc = "convert1" THEN "VLM" ELSE "OCR")
    ELSE run.method

\* the method of the conversion call the handler is at
MethodAt(pc, run) ==
    IF run.compare
    THEN (IF pc = "convert1" THEN "OCR" ELSE "VLM")
    ELSE run.method

\* process_pdf_ocr / process_pdf_vlm returns its statistics
WebConvertOk ==
    /\ wpc \in {"convert1", "convert2"}
    /\ LET m == MethodAt(wpc, wrun)
           d == Doc(nextDoc, wrun.src, m)
       IN  /\ webLog' = Append(webLog, [method |-> m, ok |-> TRUE])
           /\ nextDoc' = nextDoc + 1
           /\ IF wrun.compare /\ wpc = "convert1"
              THEN /\ wrun' = [wrun EXCEPT !.ocr = d]
                   /\ wpc' = "convert2"
              ELSE /\ wrun' = [wrun EXCEPT !.last = d]
                   /\ wpc' = "store"
    /\ UNCHANGED <<sess, uploaded, tmpFiles, webEnv>>
    /\ UNCHANGED <<cliVars, poolVars, fnVars>>

\* the conversion raises: the except block reports it
WebConvertRaise ==
    /\ wpc \in {"convert1", "convert2"}
    /\ webLog' = Append(webLog, [method |-> MethodAt(wpc, wrun), ok |-> FALSE])
    /\ nextDoc' = nextDoc + 1
    /\ wpc' = "finally"
    /\ UNCHANGED <<sess, uploaded, wrun, tmpFiles, webEnv>>
    /\ UNCHANGED <<cliVars, poolVars, fnVars>>

\* the results are shown and stored in the session for chunking
WebStore ==
    /\ wpc = "store"
    /\ sess' = [sess EXCEPT !.processed_doc = wrun.last,
                            !.markdown_content = wrun.last.id]
    /\ wpc' = "finally"
    /\ UNCHANGED <<uploaded, wrun, tmpFiles, webEnv, webLog, nextDoc>>
    /\ UNCHANGED <<cliVars, poolVars, fnVars>>

\* a finally block that leaves the file where it is
UnlinkNothing(tmps, path) == tmps

\* os.unlink(tmp_path), guarded by os.path.exists(tmp_path)
Unlink(tmps, path) == tmps \ {path}

\* finally: the temporary file is removed; the other tabs are rendered
WebFinally ==
    /\ wpc = "finally"
    /\ tmpFiles' = Unlink(tmpFiles, wrun.tmp)
    /\ wpc' = "idle"
    /\ sess' = RenderTabs(sess)
    /\ UNCHANGED <<uploaded, wrun, webEnv, webLog, nextDoc>>
    /\ UNCHANGED <<cliVars, poolVars, fnVars>>

\* "Chunk Document" is pressed in the chunking tab; chunk_document returns
\* the chunks, or an empty list when it fails
WebChunk(ok) ==
    /\ wpc = "idle"
    /\ ChunkTabShown(sess)
    /\ sess' = RenderTabs(IF ok
                          THEN [sess EXCEPT !.chunks = sess.processed_doc.id,
                                            !.chunker = TRUE]
                          ELSE sess)
    /\ UNCHANGED <<uploaded, wpc, wrun, tmpFiles, webEnv, webLog, nextDoc>>
    /\ UNCHANGED <<cliVars, poolVars, fnVars>>

\* "Embed & Store Chunks" is pressed; embed_and_store_chunks succeeds or not
WebEmbed(name, ok) ==
    /\ wpc = "idle"
    /\ ChunkTabShown(sess)
    /\ EmbedSectionShown(sess)
    /\ sess' = RenderTabs(IF ok
                          THEN [sess EXCEPT !.collection_name = name]
                          ELSE sess)
    /\ UNCHANGED <<uploaded, wpc, wrun, tmpFiles, webEnv, webLog, nextDoc>>
    /\ UNCHANGED <<cliVars, poolVars, fnVars>>

\* a query is entered in the chat tab: the question and the answer are
\* appended to the history
WebChat ==
    /\ wpc = "idle"
    /\ ChatShown(sess)
    /\ sess.messages + 2 <= MaxMsgs
    /\ sess' = [RenderChat(sess) EXCEPT !.messages = @ + 2]
    /\ UNCHANGED <<uploaded, wpc, wrun, tmpFiles, webEnv, webLog, nextDoc>>
    /\ UNCHANGED <<cliVars, poolVars, fnVars>>

\* "Clear Chat History" is pressed
WebClearChat ==
    /\ wpc = "idle"
    /\ ChatShown(sess)
    /\ sess.messages > 0
    /\ sess' = [sess EXCEPT !.messages = 0]
    /\ UNCHANGED <<uploaded, wpc, wrun, tmpFiles, webEnv, webLog, nextDoc>>
    /\ UNCHANGED <<cliVars, poolVars, fnVars>>

NextWeb ==
    \/ \E f \in 0..MaxUploads : WebUpload(f)
    \/ \E c \in BOOLEAN, m \in {"OCR", "VLM"} : WebPressProcess(c, m)
    \/ WebConvertOk
    \/ WebConvertRaise
    \/ WebStore
    \/ WebFinally
    \/ \E ok \in BOOLEAN : WebChunk(ok)
    \/ \E n \in CollectionNames, ok \in BOOLEAN : WebEmbed(n, ok)
    \/ WebChat
    \/ WebClearChat

SpecWeb == InitWeb /\ [][NextWeb]_vars

----------------------------------------------------------------------------
(* Claims about the web UI *)

\* C10: the web UI enforces process -> chunk -> embed -> chat: a collection
\* name in the session implies chunks in the session, which implies a
\* processed document in the session, and the chat history holds a message
\* only once an embedding has succeeded.
C10_OrderEnforced ==
    /\ ChatShown(sess) => sess.chunks # 0
    /\ sess.chunks # 0 => sess.processed_doc # NoDoc
    /\ sess.messages > 0 => ChatShown(sess)

C10_Witness ==
    /\ ChatShown(sess)
    /\ sess.chunks # 0
    /\ sess.messages > 0

\* C19: the chunks held in the session belong to the document held in the
\* session: whenever both are present the chunks were made from that
\* processed_doc.
C19_ChunksOfCurrentDoc ==
    (sess.chunks # 0 /\ sess.processed_doc # NoDoc)
    => sess.chunks = sess.processed_doc.id

\* the conversions of the attempt under way follow the handler's order: in
\* comparison mode OCR first and VLM only once OCR has returned, and nothing
\* is stored once a conversion has raised
ConversionsInOrder ==
    /\ wrun.compare =>
           /\ Len(webLog) <= 2
           /\ Len(webLog) >= 1 => webLog[1].method = "OCR"
           /\ Len(webLog) = 2 => (webLog[1].ok /\ webLog[2].method = "VLM")
    /\ ~wrun.compare => Len(webLog) <= 1
    /\ (\E i \in DOMAIN webLog : ~webLog[i].ok) => wpc \in {"finally", "idle"}
    /\ wpc = "store" => Len(webLog) = (IF wrun.compare THEN 2 ELSE 1)

\* a step that changes the session's document or Markdown is the store of an
\* attempt all of whose conversions returned, and stores its last document
StoredOnlyAfterSuccess ==
    (\/ sess'.processed_doc # sess.processed_doc
     \/ sess'.markdown_content # sess.markdown_content)
    => /\ wpc = "store"
       /\ \A i \in DOMAIN webLog : webLog[i].ok
       /\ sess'.processed_doc = wrun.last
       /\ sess'.markdown_content = wrun.last.id
       /\ sess'.processed_doc.src = wrun.src
       /\ wrun.compare => sess'.processed_doc.method = "VLM"
       /\ ~wrun.compare => sess'.processed_doc.method = wrun.method

\* C20: in comparison mode the OCR conversion completes before the VLM one
\* starts, and processed_doc and markdown_content are set, to the VLM result,
\* only after both have succeeded; a conversion that raises, in either mode,
\* leaves both unchanged.
C20_StoredAfterBothSucceed ==
    []ConversionsInOrder /\ [][StoredOnlyAfterSuccess]_vars

C20_Witness ==
    /\ wpc = "finally"
    /\ wrun.compare
    /\ Len(webLog) = 2
    /\ webLog[1].ok
    /\ ~webLog[2].ok
    /\ sess.processed_doc # NoDoc
    /\ sess.processed_doc.id < wrun.tmp

\* C21: the temporary file holding the uploaded PDF is deleted at the end of
\* every processing attempt: once the handler is back at rest, after normal
\* completion, after the comparison-mode early return or after a conversion
\* exception, no temporary PDF remains, and while an attempt is under way
\* the only temporary PDF is the one that attempt created.
C21_TempFileDeleted ==
    /\ wpc = "idle" => tmpFiles = {}
    /\ wpc # "idle" => tmpFiles = {wrun.tmp}

C21_Witness ==
    /\ wpc = "idle"
    /\ wrun.compare
    /\ wrun.tmp > 1
    /\ Len(webLog) = 2
    /\ ~webLog[2].ok
    /\ sess.processed_doc # NoDoc
    /\ tmpFiles = {}

----------------------------------------------------------------------------
(* final_offline_parser.py: extraction from the converted document.  Text   *)
(* is a sequence of characters, so that strip() is computed.  An attribute  *)
(* is Missing when the object does not have it and Attr(v) when it holds v; *)
(* v is NoneValue when it is set to None.                                   *)

\* an item tree has at most MaxNodes items
MaxNodes == 3

Missing == <<>>

Attr(v) == <<v>>

NoneValue == <<"<None>">>

\* hasattr(obj, name)
HasAttr(a) == a # Missing

\* getattr(obj, name, default)
GetAttr(a, default) == IF HasAttr(a) THEN a[1] ELSE default

\* the truth value of a string or None
IsTrue(v) == v \notin {NoneValue, <<>>}

\* hasattr(obj, name) and obj.name
HasTrue(a) == HasAttr(a) /\ IsTrue(a[1])

\* getattr(obj, name, '') or ''
OrEmpty(a) == IF IsTrue(GetAttr(a, <<>>)) THEN GetAttr(a, <<>>) ELSE <<>>

\* a document item: its class name and the attributes the walk looks at
Item(cls, text, rows, hlevel, caption) ==
    [cls |-> cls, text |-> text, rows |-> rows, hlevel |-> hlevel,
     caption |-> caption]

Cell(text) == [text |-> text]

Row(cells) == [cells |-> cells]

\* the items a tree is built from
Items ==
    { Item("TextItem", Attr(<<"p">>), Missing, Missing, Missing),
      Item("HeadingItem", Attr(<<"h">>), Missing, Attr(2), Missing),
      Item("HeadingItem", Attr(<<>>), Missing, Missing, Missing),
      Item("ListItem", Attr(<<"l">>), Missing, Missing, Missing),
      Item("PictureItem", Missing, Missing, Missing, Attr(<<"c">>)),
      Item("TableItem", Missing,
           Attr(<<Row(Attr(<<Cell(Attr(<<" ", "a">>)), Cell(Attr(<<>>))>>))>>),
           Missing, Missing),
      Item("TableItem", Missing, Missing, Missing, Missing),
      Item("GroupItem", Missing, Missing, Missing, Missing) }

\* the trees of n items: item 1 is the root, the parent of an item comes
\* before it, and the children of an item are in ascending order
TreesOf(n) ==
    { t \in [1..n -> [parent : 0..(n - 1), item : Items]] :
        /\ t[1].parent = 0
        /\ \A i \in 2..n : t[i].parent \in 1..(i - 1) }

Trees == UNION { TreesOf(n) : n \in 1..MaxNodes }

\* item.children, in order
RECURSIVE ChildrenFrom(_, _, _)
ChildrenFrom(t, i, j) ==
    IF j > Len(t) THEN <<>>
    ELSE (IF t[j].parent = i THEN <<j>> ELSE <<>>) \o ChildrenFrom(t, i, j + 1)

Children(t, i) == ChildrenFrom(t, i, i + 1)

\* str.strip(): leading and trailing blanks removed
RECURSIVE LStrip(_)
LStrip(str) ==
    IF str # <<>> /\ Head(str) = " " THEN LStrip(Tail(str)) ELSE str

RECURSIVE RStrip(_)
RStrip(str) ==
    IF str # <<>> /\ str[Len(str)] = " "
    THEN RStrip(SubSeq(str, 1, Len(str) - 1))
    ELSE str

Strip(str) == RStrip(LStrip(str))

\* one line of text_parts: the number of blanks it starts with, the mark
\* that follows them, its text, and the item it was appended for
Line(id, lead, mark, text) ==
    [item |-> id, lead |-> lead, mark |-> mark, text |-> text]

\* an indentation that ignores the level
IndentFlat(level) == 0

\* indent = "  " * level
Indent(level) == 2 * level

\* the text of the cells of a row that have one, stripped
RECURSIVE RowText(_)
RowText(cells) ==
    IF cells = <<>> THEN <<>>
    ELSE (IF HasTrue(Head(cells).text)
          THEN <<Strip(Head(cells).text[1])>>
          ELSE <<>>) \o RowText(Tail(cells))

\* the lines of the rows of a table: a row without cells, or without text
\* in any cell, gives none
RECURSIVE RowLines(_, _, _)
RowLines(rows, id, level) ==
    IF rows = <<>> THEN <<>>
    ELSE (IF HasAttr(Head(rows).cells) /\ RowText(Head(rows).cells[1]) # <<>>
          THEN <<Line(id, Indent(level) + 2, "|",
                      RowText(Head(rows).cells[1]))>>
          ELSE <<>>) \o RowLines(Tail(rows), id, level)

\* '#' * level_num
RECURSIVE Hashes(_)
Hashes(n) == IF n <= 0 THEN "" ELSE "#" \o Hashes(n - 1)

\* the own line of an item that carries text
TextLine(item, id, level) ==
    IF HasTrue(item.text)
    THEN <<Line(id, Indent(level), "[" \o item.cls \o "]", item.text[1])>>
    ELSE <<>>

\* the lines an item gets for its type
TypeLines(item, id, level) ==
    CASE item.cls = "TableItem" ->
            IF HasAttr(item.rows)
            THEN <<Line(id, Indent(level), "[TABLE]", <<>>)>>
                 \o RowLines(item.rows[1], id, level)
            ELSE <<>>
      [] item.cls = "PictureItem" ->
            <<Line(id, Indent(level), "[PICTURE]", OrEmpty(item.caption))>>
      [] item.cls = "HeadingItem" ->
            <<Line(id, Indent(level),
                   Hashes(GetAttr(item.hlevel, 1)),
                   OrEmpty(item.text))>>
      [] item.cls = "ListItem" ->
            <<Line(id, Indent(level), "-", OrEmpty(item.text))>>
      [] OTHER -> <<>>

\* extract_text_from_item up to its loop over the children
OwnLines(item, id, level) ==
    TextLine(item, id, level) \o TypeLines(item, id, level)

\* a frame of extract_text_from_item: its arguments, its text_parts and the
\* position of its loop over item.children
Frame(t, id, level) ==
    [item |-> id, level |-> level, parts |-> OwnLines(t[id].item, id, level),
     next |-> 1]

FnFrame == UNCHANGED <<cliVars, poolVars, webVars>>

InitWalk ==
    /\ fn = "extract_text_from_item"
    /\ farg \in Trees
    /\ fpc = "start"
    /\ stack = <<>>
    /\ calls = <<>>
    /\ fret = <<>>
    /\ CliIdle
    /\ PoolIdle
    /\ WebIdle

\* extract_text_from_item(document.body)
WalkStart ==
    /\ fpc = "start"
    /\ stack' = <<Frame(farg, 1, 0)>>
    /\ calls' = <<[item |-> 1, level |-> 0]>>
    /\ fpc' = "running"
    /\ UNCHANGED <<fn, farg, fret>>
    /\ FnFrame

\* the loop reaches a child: extract_text_from_item(child, level + 1)
WalkCall ==
    /\ fpc = "running"
    /\ LET n == Len(stack)
           f == stack[n]
           kids == Children(farg, f.item)
       IN  /\ f.next <= Len(kids)
           /\ stack' = Append([stack EXCEPT ![n].next = f.next + 1],
                              Frame(farg, kids[f.next], f.level + 1))
           /\ calls' = Append(calls, [item |-> kids[f.next],
                                      level |-> f.level + 1])
    /\ UNCHANGED <<fn, farg, fpc, fret>>
    /\ FnFrame

\* the loop is over: text_parts is returned and the caller extends its own
WalkReturn ==
    /\ fpc = "running"
    /\ LET n == Len(stack)
           f == stack[n]
       IN  /\ f.next > Len(Children(farg, f.item))
           /\ IF n = 1
              THEN /\ fret' = f.parts
                   /\ stack' = <<>>
                   /\ fpc' = "returned"
              ELSE /\ stack' = [SubSeq(stack, 1, n - 1)
                                  EXCEPT ![n - 1].parts = @ \o f.parts]
                   /\ UNCHANGED <<fret, fpc>>
    /\ UNCHANGED <<fn, farg, calls>>
    /\ FnFrame

NextWalk ==
    \/ WalkStart
    \/ WalkCall
    \/ WalkReturn

SpecWalk == InitWalk /\ [][NextWalk]_vars

\* a call that is made runs to its end
SpecWalkFair == SpecWalk /\ WF_vars(NextWalk)

----------------------------------------------------------------------------
(* Claims about extract_text_from_item *)

\* the lines of the result appended for item i that hold the text txt
LinesWith(i, txt) ==
    {k \in DOMAIN fret : fret[k].item = i /\ fret[k].text = txt}

\* C22: extract_text_from_item emits each item's text exactly once: every
\* item of the tree with non-empty text (heading, list item, paragraph)
\* contributes exactly one line of the result containing that text.
C22_TextEmittedOnce ==
    fpc = "returned" =>
        \A i \in DOMAIN farg :
            HasTrue(farg[i].item.text) =>
                Cardinality(LinesWith(i, farg[i].item.text[1])) = 1

\* the items from the root down to item i
RECURSIVE PathTo(_, _)
PathTo(t, i) ==
    IF t[i].parent = 0 THEN <<i>> ELSE Append(PathTo(t, t[i].parent), i)

DepthOf(t, i) == Len(PathTo(t, i)) - 1

\* item a comes before item b in the pre-order of t: a is a proper ancestor
\* of b, or where their paths part the branch to a is the earlier child
PreOrderBefore(t, a, b) ==
    LET pa == PathTo(t, a)
        pb == PathTo(t, b)
    IN  \/ Len(pa) < Len(pb) /\ SubSeq(pb, 1, Len(pa)) = pa
        \/ \E k \in 1..Len(pa) :
              /\ k <= Len(pb)
              /\ SubSeq(pa, 1, k - 1) = SubSeq(pb, 1, k - 1)
              /\ pa[k] < pb[k]

\* the calls made so far are distinct items in pre-order, each at its depth,
\* and once the walk has returned every item has been called and the lines
\* of the result are in the pre-order of their items
WalkedInPreOrder ==
    /\ \A p, q \in DOMAIN calls :
          p < q => PreOrderBefore(farg, calls[p].item, calls[q].item)
    /\ \A p \in DOMAIN calls : calls[p].level = DepthOf(farg, calls[p].item)
    /\ fpc = "returned" =>
          /\ {calls[p].item : p \in DOMAIN calls} = DOMAIN farg
          /\ \A p, q \in DOMAIN fret :
                p < q => \/ fret[p].item = fret[q].item
                         \/ PreOrderBefore(farg, fret[p].item, fret[q].item)

\* every line of the result starts with two blanks per level of its item
IndentedByDepth ==
    fpc = "returned" =>
        \A p \in DOMAIN fret :
            fret[p].lead = 2 * DepthOf(farg, fret[p].item)

\* as IndentedByDepth, but the row lines of a table start two blanks further
IndentedByDepthRowsDeeper ==
    fpc = "returned" =>
        \A p \in DOMAIN fret :
            fret[p].lead = 2 * DepthOf(farg, fret[p].item)
                           + (IF fret[p].mark = "|" THEN 2 ELSE 0)

\* C23 as stated: for any finite tree extract_text_from_item terminates and
\* walks it in pre-order: each item is visited exactly once, an item's own
\* lines precede those of its descendants, siblings appear in child order,
\* and every line for an item at depth d is indented by exactly 2*d blanks.
C23_PreOrderIndentedByDepth ==
    /\ [](WalkedInPreOrder /\ IndentedByDepth)
    /\ <>(fpc = "returned")

\* C23 amended: as stated, except that the row lines of a table at depth d
\* are indented by 2*d + 2 blanks.
C23_PreOrderRowsDeeper ==
    /\ [](WalkedInPreOrder /\ IndentedByDepthRowsDeeper)
    /\ <>(fpc = "returned")

C23_Witness ==
    /\ fpc = "returned"
    /\ Len(farg) = 3
    /\ farg[3].parent = 2
    /\ farg[3].item.cls = "TableItem"
    /\ \E p \in DOMAIN fret : fret[p].mark = "|" /\ fret[p].lead = 6
    /\ farg[2].item.cls = "GroupItem"
    /\ Len(calls) = 3

----------------------------------------------------------------------------
(* extract_table_data of final_offline_parser.py and offline_pdf_parser.py, *)
(* and the Markdown table save_results writes from its result               *)

\* a table has at most MaxRows rows of at most MaxCells cells
MaxRows == 2

MaxCells == 2

\* the sequences over S of length at most n
SeqsUpTo(S, n) == UNION { [1..k -> S] : k \in 0..n }

CellTexts == { Missing, Attr(NoneValue), Attr(<<" ", "a">>) }

TableRows ==
    { Row(Missing) } \cup
    { Row(Attr(cs)) : cs \in SeqsUpTo({ Cell(x) : x \in CellTexts }, MaxCells) }

\* a table item: its rows attribute
Table(rows) == [rows |-> rows]

Tables ==
    { Table(Missing) } \cup
    { Table(Attr(rs)) : rs \in SeqsUpTo(TableRows, MaxRows) }

TableFns == { "final_offline_parser", "offline_pdf_parser" }

\* what a call on None leaves in place of a value
AttributeError == <<"<AttributeError>">>

\* getattr(cell, 'text', '') if hasattr(cell, 'text') else ''
CellText(cell) == GetAttr(cell.text, <<>>)

\* cell_text.strip()
StripText(v) == IF v = NoneValue THEN AttributeError ELSE Strip(v)

\* the entry appended to row_data for a cell: stripped in
\* final_offline_parser, as it is in offline_pdf_parser
Entry(f, cell) ==
    IF f = "final_offline_parser"
    THEN StripText(CellText(cell))
    ELSE CellText(cell)

\* row_data: one entry per cell, none for a row without cells
RowData(f, row) ==
    IF HasAttr(row.cells)
    THEN [k \in DOMAIN row.cells[1] |-> Entry(f, row.cells[1][k])]
    ELSE <<>>

\* table_data["rows"]: one row_data per row, none without a rows attribute
TableData(f, table) ==
    IF HasAttr(table.rows)
    THEN [r \in DOMAIN table.rows[1] |-> RowData(f, table.rows[1][r])]
    ELSE <<>>

\* the call raised: strip() was called on None
Raised(rows) ==
    \E r \in DOMAIN rows : \E k \in DOMAIN rows[r] : rows[r][k] = AttributeError

\* a value " | ".join accepts
IsStr(v) == v \notin {NoneValue, AttributeError}

InitTable ==
    /\ fn \in TableFns
    /\ farg \in Tables
    /\ fpc = "start"
    /\ stack = <<>>
    /\ calls = <<>>
    /\ fret = <<>>
    /\ CliIdle
    /\ PoolIdle
    /\ WebIdle

\* extract_table_data(table) returns table_data, or raises
TableCall ==
    /\ fpc = "start"
    /\ LET rows == TableData(fn, farg)
       IN  IF Raised(rows)
           THEN /\ fpc' = "raised"
                /\ UNCHANGED fret
           ELSE /\ fpc' = "returned"
                /\ fret' = rows
    /\ UNCHANGED <<fn, farg, stack, calls>>
    /\ FnFrame

\* save_results writes "| " + " | ".join(row) + " |" for every row
TableSave ==
    /\ fpc = "returned"
    /\ fpc' = IF \A r \in DOMAIN fret : \A k \in DOMAIN fret[r] : IsStr(fret[r][k])
              THEN "saved"
              ELSE "raised"
    /\ UNCHANGED <<fn, farg, stack, calls, fret>>
    /\ FnFrame

NextTable ==
    \/ TableCall
    \/ TableSave

SpecTable == InitTable /\ [][NextTable]_vars

----------------------------------------------------------------------------
(* Claims about extract_table_data *)

\* C24: extract_table_data only skips what is absent and never fails: a
\* missing rows attribute yields no rows, a row without cells yields an
\* empty row, and a cell whose text attribute is absent or None yields a
\* string for that cell, so the result has one row list per table row whose
\* entries are all strings, and no exception is raised.
C24_TableDataNeverFails ==
    /\ fpc # "raised"
    /\ fpc \in {"returned", "saved"} =>
          IF HasAttr(farg.rows)
          THEN /\ Len(fret) = Len(farg.rows[1])
               /\ \A r \in DOMAIN fret :
                     /\ ~HasAttr(farg.rows[1][r].cells) => fret[r] = <<>>
                     /\ HasAttr(farg.rows[1][r].cells) =>
                           Len(fret[r]) = Len(farg.rows[1][r].cells[1])
                     /\ \A k \in DOMAIN fret[r] : IsStr(fret[r][k])
          ELSE fret = <<>>

----------------------------------------------------------------------------
(* extract_document_content of final_offline_parser.py.  The page and the   *)
(* figure entries it collects do not touch the text fields and are left     *)
(* out; a string is the sequence of its pieces.                             *)

\* the body of a document has at most MaxBodyNodes items
MaxBodyNodes == 2

\* a library call that raises
Raises == <<"<raises>">>

\* "  " * level as a string
RECURSIVE Blanks(_)
Blanks(n) == IF n <= 0 THEN <<>> ELSE <<" ">> \o Blanks(n - 1)

\* sep.join(strs)
RECURSIVE Join(_, _)
Join(strs, sep) ==
    IF strs = <<>> THEN <<>>
    ELSE IF Len(strs) = 1 THEN strs[1]
    ELSE strs[1] \o sep \o Join(Tail(strs), sep)

\* the string appended to text_parts for a line
Render(line) ==
    Blanks(line.lead) \o <<line.mark, " ">> \o
    (IF line.mark = "|"
     THEN Join(line.text, <<" ", "|", " ">>) \o <<" ", "|">>
     ELSE line.text)

\* extract_text_from_item(item, level): its own lines, then its children's
RECURSIVE WalkFrom(_, _, _)
RECURSIVE WalkChildren(_, _, _)
WalkFrom(t, i, level) ==
    OwnLines(t[i].item, i, level) \o WalkChildren(t, Children(t, i), level + 1)

WalkChildren(t, kids, level) ==
    IF kids = <<>> THEN <<>>
    ELSE WalkFrom(t, Head(kids), level) \o WalkChildren(t, Tail(kids), level)

\* "\n".join(extract_text_from_item(document.body))
BodyText(body) ==
    Join([k \in DOMAIN WalkFrom(body, 1, 0) |-> Render(WalkFrom(body, 1, 0)[k])],
         <<"\n">>)

\* exported_text and exported_text.strip()
NonBlank(v) == IsTrue(v) /\ Strip(v) # <<>>

\* a document: its body, its tables, its text items and what its two
\* exporters do when called
Document(body, tables, texts, text, markdown) ==
    [body |-> body, tables |-> tables, texts |-> texts,
     export_to_text |-> text, export_to_markdown |-> markdown]

Bodies ==
    { Missing } \cup
    { Attr(t) : t \in UNION { TreesOf(n) : n \in 1..MaxBodyNodes } }

Documents ==
    { Document(b, tb, tx, et, em) :
        b \in Bodies,
        tb \in { <<>>,
                 <<Table(Attr(<<Row(Attr(<<Cell(Attr(<<"a", " ">>))>>))>>))>>,
                 <<Table(Attr(<<Row(Attr(<<Cell(Attr(NoneValue))>>))>>))>> },
        tx \in { <<>>, <<Attr(<<"p">>)>> },
        et \in { Raises, NoneValue, <<>>, <<" ">>, <<"t">> },
        em \in { Raises, <<"m">> } }

\* the content dict at the start
EmptyContent ==
    [full_text |-> <<>>, text_content |-> <<>>, tables |-> <<>>,
     markdown_content |-> Missing]

\* the export step that takes whatever the exporter returned
ExportedAlways(content, exported) ==
    IF exported = Raises
    THEN content
    ELSE [content EXCEPT !.full_text = exported, !.text_content = exported]

\* the try block around export_to_text: both text fields are replaced when
\* the exported text is not blank
Exported(content, exported) ==
    IF exported # Raises /\ NonBlank(exported)
    THEN [content EXCEPT !.full_text = exported, !.text_content = exported]
    ELSE content

InitContent ==
    /\ fn = "extract_document_content"
    /\ farg \in Documents
    /\ fpc = "start"
    /\ stack = <<>>
    /\ calls = <<>>
    /\ fret = EmptyContent
    /\ CliIdle
    /\ PoolIdle
    /\ WebIdle

\* the body is walked when the document has one
ContentBody ==
    /\ fpc = "start"
    /\ fret' = IF HasAttr(farg.body)
               THEN [fret EXCEPT !.full_text = BodyText(farg.body[1]),
                                 !.text_content = BodyText(farg.body[1])]
               ELSE fret
    /\ fpc' = "tables"
    /\ UNCHANGED <<fn, farg, stack, calls>>
    /\ FnFrame

\* extract_table_data for every table; its exception is not caught
ContentTables ==
    /\ fpc = "tables"
    /\ LET data == [k \in DOMAIN farg.tables |->
                       TableData("final_offline_parser", farg.tables[k])]
       IN  IF \E k \in DOMAIN data : Raised(data[k])
           THEN /\ fpc' = "raised"
                /\ UNCHANGED fret
           ELSE /\ fpc' = "texts"
                /\ fret' = [fret EXCEPT !.tables = data]
    /\ UNCHANGED <<fn, farg, stack, calls>>
    /\ FnFrame

\* the text of every text item is added to text_content
RECURSIVE TextsOf(_)
TextsOf(items) ==
    IF items = <<>> THEN <<>>
    ELSE (IF HasTrue(Head(items)) THEN Head(items)[1] \o <<"\n">> ELSE <<>>)
         \o TextsOf(Tail(items))

ContentTexts ==
    /\ fpc = "texts"
    /\ fret' = [fret EXCEPT !.text_content = @ \o TextsOf(farg.texts)]
    /\ fpc' = "export_text"
    /\ UNCHANGED <<fn, farg, stack, calls>>
    /\ FnFrame

\* document.export_to_text() inside its try block
ContentExportText ==
    /\ fpc = "export_text"
    /\ fret' = Exported(fret, farg.export_to_text)
    /\ fpc' = "export_markdown"
    /\ UNCHANGED <<fn, farg, stack, calls>>
    /\ FnFrame

\* document.export_to_markdown() inside its try block; content is returned
ContentExportMarkdown ==
    /\ fpc = "export_markdown"
    /\ fret' = IF farg.export_to_markdown # Raises
                  /\ NonBlank(farg.export_to_markdown)
               THEN [fret EXCEPT !.markdown_content =
                                     Attr(farg.export_to_markdown)]
               ELSE fret
    /\ fpc' = "returned"
    /\ UNCHANGED <<fn, farg, stack, calls>>
    /\ FnFrame

NextContent ==
    \/ ContentBody
    \/ ContentTables
    \/ ContentTexts
    \/ ContentExportText
    \/ ContentExportMarkdown

SpecContent == InitContent /\ [][NextContent]_vars

----------------------------------------------------------------------------
(* Claims about extract_document_content *)

\* export_to_text has been called
ExportTried == fpc \in {"export_markdown", "returned"}

\* after the call of export_to_text: its non-blank text is in both text
\* fields; otherwise full_text is the text of the body walk, empty without
\* a body
ExporterPreferred ==
    ExportTried =>
        IF farg.export_to_text # Raises /\ NonBlank(farg.export_to_text)
        THEN /\ fret.full_text = farg.export_to_text
             /\ fret.text_content = farg.export_to_text
        ELSE fret.full_text =
                 (IF HasAttr(farg.body) THEN BodyText(farg.body[1]) ELSE <<>>)

\* a step taken at or after the call of export_to_text goes on to the
\* Markdown export and from there to the return of content: whatever the
\* exporters do, the call does not end in an exception
ExportSurvived ==
    /\ fpc = "export_text" => fpc' = "export_markdown"
    /\ fpc = "export_markdown" =>
          (fpc' = "returned" /\ fret'.full_text = fret.full_text)

\* C25: extract_document_content prefers the library exporter and survives
\* its failure: whenever export_to_text succeeds with non-blank text,
\* full_text and text_content both equal that text; when it raises or
\* returns blank text, extraction still completes and full_text keeps the
\* text of the body tree walk.
C25_ExporterPreferred ==
    []ExporterPreferred /\ [][ExportSurvived]_vars

C25_Witness ==
    /\ fpc = "returned"
    /\ farg.export_to_text = <<" ">>
    /\ HasAttr(farg.body)
    /\ fret.full_text # <<>>
    /\ fret.text_content # fret.full_text
    /\ farg.tables # <<>>

----------------------------------------------------------------------------
(* Pictures: extract_images_from_doc of streamlit_app.py and the loop of    *)
(* image_extractor.py.  An image is "png", or "bad" when its save raises;   *)
(* "None" is None and "raises" a call that raises.                          *)

\* a document has at most MaxPictures pictures
MaxPictures == 3

\* a picture of the web UI's document: what picture.get_image(doc) does when
\* the method exists, and the image attribute
WebPicture(get_image, image) == [get_image |-> get_image, image |-> image]

WebPictures ==
    { WebPicture(g, i) :
        g \in { Missing, Attr("png"), Attr("None"), Attr("raises") },
        i \in { Missing, Attr("None"), Attr("png") } }

\* the document: its pictures attribute and the number of image references
\* in its Markdown export
WebDocs ==
    { [pictures |-> ps, md_images |-> m] :
        ps \in { Missing } \cup
               { Attr(x) : x \in SeqsUpTo(WebPictures, MaxPictures) },
        m \in 0..1 }

\* the entries appended to images for picture i (counted from 0): get_image
\* is tried when the picture has it, the image attribute only when it has not
PictureEntries(pic, i) ==
    IF HasAttr(pic.get_image)
    THEN IF pic.get_image[1] \notin {"None", "raises"}
         THEN <<[type |-> "picture", index |-> i, image |-> pic.get_image[1],
                 source |-> "pictures.get_image()"]>>
         ELSE <<>>
    ELSE IF HasAttr(pic.image) /\ pic.image[1] # "None"
         THEN <<[type |-> "picture", index |-> i, image |-> pic.image[1],
                 source |-> "pictures.image"]>>
         ELSE <<>>

\* hasattr(doc, 'pictures') and doc.pictures
PicturesOf(a) == GetAttr(a, <<>>)

InitImages ==
    /\ fn = "extract_images_from_doc"
    /\ farg \in WebDocs
    /\ fpc = "start"
    /\ stack = <<[i |-> 0]>>
    /\ calls = <<>>
    /\ fret = <<>>
    /\ CliIdle
    /\ PoolIdle
    /\ WebIdle

\* one turn of the loop over doc.pictures; an exception is reported and the
\* loop goes on
ImagesPicture ==
    /\ fpc = "start"
    /\ LET i == stack[1].i
       IN  /\ i < Len(PicturesOf(farg.pictures))
           /\ fret' = fret \o PictureEntries(PicturesOf(farg.pictures)[i + 1], i)
           /\ stack' = <<[i |-> i + 1]>>
    /\ UNCHANGED <<fn, farg, fpc, calls>>
    /\ FnFrame

\* method 2: one entry per image reference in the Markdown export; images
\* is returned
ImagesMarkdown ==
    /\ fpc = "start"
    /\ stack[1].i >= Len(PicturesOf(farg.pictures))
    /\ fret' = fret \o [k \in 1..farg.md_images |->
                           [type |-> "markdown", index |-> k - 1,
                            reference |-> "![](...)",
                            source |-> "markdown_content"]]
    /\ fpc' = "returned"
    /\ UNCHANGED <<fn, farg, stack, calls>>
    /\ FnFrame

NextImages ==
    \/ ImagesPicture
    \/ ImagesMarkdown

SpecImages == InitImages /\ [][NextImages]_vars

\* a picture of image_extractor's document: its image attribute
Picture(image) == [image |-> image]

Pictures == { Picture(i) : i \in { Missing, Attr("None"), Attr("png"), Attr("bad") } }

\* f"output/images/image_{i+1}.png"
ImagePath(n) == <<"output/images/image_", n, ".png">>

\* an index that counts from 0
ImgIndexFromZero(i) == i

\* the number of a picture in the output: i + 1
ImgIndex(i) == i + 1

InitExtractor ==
    /\ fn = "image_extractor"
    /\ farg \in { Missing } \cup { Attr(x) : x \in SeqsUpTo(Pictures, MaxPictures) }
    /\ fpc = "start"
    /\ stack = <<[i |-> 0]>>
    /\ calls = <<>>
    /\ fret = <<>>
    /\ CliIdle
    /\ PoolIdle
    /\ WebIdle

\* one turn of the loop over doc.pictures: a picture with an image is saved,
\* and recorded in images_info when the save returns
ExtractorPicture ==
    /\ fpc = "start"
    /\ LET i == stack[1].i
           pic == PicturesOf(farg)[i + 1]
       IN  /\ i < Len(PicturesOf(farg))
           /\ IF HasAttr(pic.image) /\ pic.image[1] # "None"
              THEN /\ calls' = Append(calls, [save |-> ImagePath(ImgIndex(i)),
                                              ok |-> pic.image[1] # "bad"])
                   /\ fret' = IF pic.image[1] # "bad"
                              THEN Append(fret, [index |-> ImgIndex(i),
                                                 path |-> ImagePath(ImgIndex(i))])
                              ELSE fret
              ELSE UNCHANGED <<calls, fret>>
           /\ stack' = <<[i |-> i + 1]>>
    /\ UNCHANGED <<fn, farg, fpc>>
    /\ FnFrame

\* the loop is over: the Markdown and images_info are written
ExtractorSave ==
    /\ fpc = "start"
    /\ stack[1].i >= Len(PicturesOf(farg))
    /\ fpc' = "returned"
    /\ UNCHANGED <<fn, farg, stack, calls, fret>>
    /\ FnFrame

NextExtractor ==
    \/ ExtractorPicture
    \/ ExtractorSave

SpecExtractor == InitExtractor /\ [][NextExtractor]_vars

----------------------------------------------------------------------------
(* Claims about pictures *)

\* the 'picture' entries of images for the picture at position k
PictureEntriesAt(k) ==
    {e \in DOMAIN fret : fret[e].type = "picture" /\ fret[e].index = k - 1}

\* C26: extract_images_from_doc tries get_image first and falls back to the
\* picture's image attribute: a picture for which get_image yields no image
\* (the method is absent or returns None) but whose image attribute holds an
\* image still contributes a 'picture' entry, and every picture contributes
\* at most one 'picture' entry.
C26_FallsBackToImage ==
    fpc = "returned" =>
        \A k \in DOMAIN PicturesOf(farg.pictures) :
            LET pic == PicturesOf(farg.pictures)[k]
            IN  /\ Cardinality(PictureEntriesAt(k)) <= 1
                /\ ( /\ pic.get_image \in {Missing, Attr("None")}
                     /\ HasAttr(pic.image)
                     /\ pic.image[1] # "None" )
                   => PictureEntriesAt(k) # {}

\* the pictures whose image was saved
SavedPictures ==
    {k \in DOMAIN PicturesOf(farg) : PicturesOf(farg)[k].image = Attr("png")}

\* C27: in image_extractor a picture with no image or whose save raises is
\* skipped and the loop goes on with the next picture; images_info holds
\* exactly the pictures that were saved, in document order, each with index
\* equal to its 1-based position in doc.pictures and the distinct path
\* image_<index>.png.
C27_ImagesInfoIsSaved ==
    /\ \A e \in DOMAIN fret :
          /\ fret[e].index \in SavedPictures
          /\ fret[e].path = ImagePath(fret[e].index)
          /\ \E c \in DOMAIN calls : calls[c].ok /\ calls[c].save = fret[e].path
    /\ \A d, e \in DOMAIN fret :
          d < e => (fret[d].index < fret[e].index /\ fret[d].path # fret[e].path)
    /\ \A c \in DOMAIN calls :
          calls[c].ok => \E e \in DOMAIN fret : fret[e].path = calls[c].save
    /\ fpc = "returned" => {fret[e].index : e \in DOMAIN fret} = SavedPictures

C27_Witness ==
    /\ fpc = "returned"
    /\ Len(PicturesOf(farg)) = 3
    /\ PicturesOf(farg)[1].image = Attr("bad")
    /\ PicturesOf(farg)[2].image = Attr("None")
    /\ PicturesOf(farg)[3].image = Attr("png")
    /\ fret = <<[index |-> 3, path |-> ImagePath(3)]>>
    /\ Len(calls) = 2

====
